---- MODULE Spec2Model ----
(***************************************************************************)
(* Model of the control core of robot_core: the central RobotStateMachine  *)
(* (state_machine/robot_state_machine.py), the asynchronous EventBus       *)
(* (events/event_bus.py) and the handlers ImprovedRobotSystem              *)
(* (main_improved.py) wires between them.                                  *)
(*                                                                         *)
(* The second part models navigation/path_planner.py: Grid, AStarPlanner,  *)
(* DynamicWindowApproach and the PathPlanner that orchestrates them.       *)
(*                                                                         *)
(* The third part models localization/ (encoder_reader.py, odometry.py,    *)
(* sensor_fusion.py), hardware/ (car_run_turn.py, motor_controller.py) and *)
(* the main loop of main_improved.py.                                      *)
(*                                                                         *)
(* The specifications share the variables:                                 *)
(*   SMSpec       the state machine driven by transition_to calls          *)
(*   DeliverySpec, UnsubscribeSpec, BusSpec                                *)
(*                the event bus driven by subscribe/publish/start/stop and *)
(*                the steps of its dispatch task                           *)
(*   AStarSpec    AStarPlanner.plan_path applied to bounded grids          *)
(*   DWASpec      DynamicWindowApproach.compute_velocity applied to        *)
(*                bounded obstacle configurations                          *)
(*   PlannerSpec  the PathPlanner driven by set_goal, update_obstacles,    *)
(*                update_pose, update_map and the control tick             *)
(*   EncoderSpec  the EncoderReader: GPIO pulse callbacks against the       *)
(*                reader of the incremental counts                         *)
(*   OdometrySpec the Odometry fed by the encoder, with set_pose and       *)
(*                reset_pose                                               *)
(*   FusionSpec   the SensorFusion tick over the odometry and IMU readings *)
(*   CarSpec      the CarRunTurnController's timed moves and its emergency *)
(*                stop                                                     *)
(*   LoopSpec     the main loop of ImprovedRobotSystem with the state      *)
(*                machine, the PathPlanner and the MotorController         *)
(*   RecoverySpec the main loop left to itself after a navigation goal,    *)
(*                with the Error tick scheduled fairly                     *)
(*   OverlapSpec  transition_to calls that overlap: a call suspended at    *)
(*                its validator while others run                           *)
(*   SnapshotSpec the pose objects of the Odometry and the SensorFusion by *)
(*                identity, their accessors and a consumer's writes        *)
(* Variables whose name starts with g_ are history (ghost) variables: they *)
(* record what happened and are never read by the modelled code.           *)
(***************************************************************************)
EXTENDS Integers, Sequences, FiniteSets, TLC

VARIABLES
    \* RobotStateMachine
    current_state,          \* self._current_state
    state_history,          \* self._state_history: list of StateTransition
    state_validators,       \* self._state_validators: state -> list of validators
    emergency_stop_active,  \* ImprovedRobotSystem.emergency_stop_active
    g_last_call,            \* the last transition_to call and what it returned
    g_attempts,             \* number of transition_to calls made so far
    \* EventBus
    subscribers,            \* self._subscribers: kind -> list of handlers
    weak_subscribers,       \* self._weak_subscribers: kind -> set of weak refs
    collected,              \* handlers whose object has been garbage collected
    event_queue,            \* self._event_queue: FIFO of (priority, event)
    event_history,          \* self._event_history: deque(maxlen=max_history)
    is_running,             \* self._is_running
    processor_task,         \* self._processor_task and where it stands
    stats,                  \* self._stats counters
    g_created,              \* number of events created so far (the last event id)
    g_handled,              \* ids of the events given to _handle_event since
                            \* the last clear_history, in order
    g_last_dispatched,      \* id of the last event the dispatch task took
    g_unsubscribed,         \* <<kind, handler>> unsubscribed, not re-subscribed,
                            \* and still able to receive a delivery
    \* PathPlanner
    navigation_state,       \* self.navigation_state
    current_goal,           \* self.current_goal (a Point or "none")
    current_position,       \* self.current_position
    current_theta,          \* self.current_theta, in quarter turns
    current_path,           \* self.current_path: list of Points
    path_index,             \* self.path_index
    dynamic_obstacles,      \* self.dynamic_obstacles: list of Obstacles
    grid_data,              \* self.grid.data: the set of occupied cells
    current_occupancy_map,  \* self.current_occupancy_map is not None
    now,                    \* time.time()
    g_nav,                  \* the last PathPlanner call and what it did
    \* AStarPlanner and DynamicWindowApproach called on their own
    astar_call,             \* arguments and result of a plan_path call
    dwa_call,               \* arguments and result of a compute_velocity call
    \* localization
    encoder_reader,         \* the EncoderReader, its callback thread and the
                            \* call of get_incremental_data in progress
    odometry,               \* the Odometry object
    sensor_fusion,          \* the SensorFusion object and its filter
    \* hardware and main loop
    car_controller,         \* the CarRunTurnController and its sleeping commands
    motor_controller,       \* the MotorController and its two motors
    main_loop,              \* ImprovedRobotSystem.start_main_loop and where the
                            \* tick in progress stands
    \* what overlapping coroutines and the consumers of the estimates share
    transition_calls,       \* the transition_to calls suspended at an await
    pose_objects            \* the Pose2D and FusedPose objects, who refers to
                            \* them and which were handed out

smvars  == <<current_state, state_history, state_validators,
             emergency_stop_active, g_last_call, g_attempts>>
busvars == <<subscribers, weak_subscribers, collected, event_queue,
             event_history, is_running, processor_task, stats, g_created,
             g_handled, g_last_dispatched, g_unsubscribed>>
navvars == <<navigation_state, current_goal, current_position,
             current_theta, current_path, path_index, dynamic_obstacles,
             grid_data, current_occupancy_map, now, g_nav, astar_call,
             dwa_call>>
locvars == <<encoder_reader, odometry, sensor_fusion>>
sharedvars == <<transition_calls, pose_objects>>
hwvars  == <<car_controller, motor_controller, main_loop, sharedvars>>
vars    == <<smvars, busvars, navvars, locvars, hwvars>>

----------------------------------------------------------------------------
(* Bounds of the model *)

MaxCalls      == 3   \* transition_to calls in one behaviour
MaxValidators == 1   \* add_state_validator calls in one behaviour
MaxOverlap    == 2   \* transition_to calls suspended at one time
MaxObjects    == 6   \* Pose2D and FusedPose objects created in one behaviour
MaxPoseValue  == 1   \* the largest x coordinate of a pose object
MaxEvents     == 2   \* events created (publish and publish_sync) in one behaviour
MaxSubs       == 2   \* registrations the bus holds at one time
MaxHistory    == 1   \* the max_history argument of EventBus.__init__
PlanningRange == 3   \* config.planning_range, which makes the grid
                     \* PlanningRange cells wide and high
MaxIterations == 3   \* the small max_iterations plan_path is called with
MaxObstacles  == 2   \* obstacles compute_velocity is called with
MaxTracked    == 1   \* obstacles the PathPlanner tracks at one time
MaxTime       == 6   \* the last value of time.time()
MaxPulses     == 3   \* encoder pulses counted per wheel between two resets
MaxTicks      == 3   \* SensorFusion.update calls
MaxSleeping   == 2   \* timed motor commands asleep at one time

----------------------------------------------------------------------------
(* events/events.py *)

EventType == {"motor_status", "sensor_data", "navigation", "vision",
              "system_state", "emergency"}

\* the publish calls made in this model, as <<kind, priority>>: the
\* emergency event of ImprovedRobotSystem.emergency_stop (priority 0) and the
\* pose event of Odometry (priority 1)
PublishCalls == {<<"emergency", 0>>, <<"navigation", 1>>}

\* the event kinds publish_sync is called with
UsedKinds == {"navigation", "emergency"}

\* the event kinds handlers subscribe to
SubscribedKinds == {"emergency"}

Handlers == {"h1", "h2"}

\* the subscribe calls made in this model, as <<handler, weak_ref>>: h1 is
\* subscribed with a strong or with a weak reference, h2 with a strong one
SubscribeCalls == {<<"h1", FALSE>>, <<"h1", TRUE>>, <<"h2", FALSE>>}

----------------------------------------------------------------------------
(* state_machine/robot_state_machine.py *)

RobotState == {"initializing", "idle", "navigating", "mapping", "charging",
               "manual_control", "calibrating", "updating", "emergency_stop",
               "error", "recovering", "shutting_down", "shutdown"}

\* _build_transition_rules, with the terminal state given some outgoing edge
build_transition_rules_leaky ==
    [s \in RobotState |->
        CASE s = "initializing"   -> {"idle", "error", "shutting_down"}
          [] s = "idle"           -> {"navigating", "mapping", "charging",
                                      "manual_control", "calibrating",
                                      "updating", "emergency_stop", "error",
                                      "shutting_down"}
          [] s = "navigating"     -> {"idle", "emergency_stop", "error",
                                      "charging", "manual_control"}
          [] s = "mapping"        -> {"idle", "emergency_stop", "error",
                                      "navigating"}
          [] s = "charging"       -> {"idle", "emergency_stop", "error"}
          [] s = "manual_control" -> {"idle", "emergency_stop", "error"}
          [] s = "calibrating"    -> {"idle", "error", "emergency_stop"}
          [] s = "updating"       -> {"idle", "error", "shutting_down"}
          [] s = "emergency_stop" -> {"idle", "recovering", "error",
                                      "shutting_down"}
          [] s = "error"          -> {"recovering", "emergency_stop",
                                      "shutting_down"}
          [] s = "recovering"     -> {"idle", "error", "emergency_stop"}
          [] s = "shutting_down"  -> {"shutdown"}
          [] s = "shutdown"       -> {"initializing"}]

build_transition_rules ==
    [s \in RobotState |->
        CASE s = "initializing"   -> {"idle", "error", "shutting_down"}
          [] s = "idle"           -> {"navigating", "mapping", "charging",
                                      "manual_control", "calibrating",
                                      "updating", "emergency_stop", "error",
                                      "shutting_down"}
          [] s = "navigating"     -> {"idle", "emergency_stop", "error",
                                      "charging", "manual_control"}
          [] s = "mapping"        -> {"idle", "emergency_stop", "error",
                                      "navigating"}
          [] s = "charging"       -> {"idle", "emergency_stop", "error"}
          [] s = "manual_control" -> {"idle", "emergency_stop", "error"}
          [] s = "calibrating"    -> {"idle", "error", "emergency_stop"}
          [] s = "updating"       -> {"idle", "error", "shutting_down"}
          [] s = "emergency_stop" -> {"idle", "recovering", "error",
                                      "shutting_down"}
          [] s = "error"          -> {"recovering", "emergency_stop",
                                      "shutting_down"}
          [] s = "recovering"     -> {"idle", "error", "emergency_stop"}
          [] s = "shutting_down"  -> {"shutdown"}
          [] s = "shutdown"       -> {}]

\* _is_transition_allowed: self._transition_rules.get(from_state, set())
is_transition_allowed(from_state, to_state) ==
    LET allowed_states == IF from_state \in DOMAIN build_transition_rules
                          THEN build_transition_rules[from_state]
                          ELSE {}
    IN  to_state \in allowed_states

\* what one validator call can do
ValidatorResult == {"true", "false", "raise"}

\* _validate_state_conditions that logs a raising validator and goes on
RECURSIVE validate_state_conditions_lenient(_)
validate_state_conditions_lenient(results) ==
    IF results = <<>> THEN TRUE
    ELSE IF Head(results) = "false" THEN FALSE
    ELSE validate_state_conditions_lenient(Tail(results))

\* _validate_state_conditions: the validators run in list order, the first
\* one that returns a falsy result or raises ends the loop with False
RECURSIVE validate_state_conditions(_)
validate_state_conditions(results) ==
    IF results = <<>> THEN TRUE
    ELSE IF Head(results) = "true"
         THEN validate_state_conditions(Tail(results))
         ELSE FALSE

----------------------------------------------------------------------------
(* events/event_bus.py: publish, used by the state machine as well *)

\* asyncio.Queue.put as a priority queue would do it: kept sorted by priority
queue_put_by_priority(queue, item) ==
    LET before == SelectSeq(queue, LAMBDA q: q.priority <= item.priority)
        after  == SelectSeq(queue, LAMBDA q: q.priority > item.priority)
    IN  before \o <<item>> \o after

\* asyncio.Queue.put: the queue is a plain FIFO, the item goes to the tail
queue_put(queue, item) == Append(queue, item)

\* number of entries of a list equal to h
count(list, h) == Cardinality({i \in DOMAIN list : list[i] = h})

\* the weak refs of a kind whose referent is still alive
live_weak(event_type) == weak_subscribers[event_type] \ collected

\* the handlers that hold a registration (strong, or weak and alive) for a kind
subscribed_to(event_type) ==
    { h \in Handlers :
        count(subscribers[event_type], h) > 0 \/ h \in live_weak(event_type) }

\* EventBus.publish(event, priority): enqueue (priority, event), count it.
\* g_subs remembers who was subscribed when the event was published.
publish(event_type, priority) ==
    LET event == [event_id |-> g_created + 1, event_type |-> event_type]
    IN  /\ event_queue' = queue_put(event_queue,
                             [priority |-> priority, event |-> event,
                              g_subs |-> subscribed_to(event_type)])
        /\ stats' = [stats EXCEPT
                        !.events_published = @ + 1,
                        !.events_by_type[event_type] = @ + 1]
        /\ g_created' = g_created + 1

----------------------------------------------------------------------------
(* RobotStateMachine.transition_to and the callbacks and the validator      *)
(* ImprovedRobotSystem._setup_state_machine_callbacks registers             *)

\* what the validators registered for new_state can answer on one call:
\* validate_navigation_state returns False at once while the emergency flag
\* is set, otherwise its answer depends on the battery reading (or it raises
\* with the sensor manager); any other validator is free
validator_results(new_state) ==
    LET validators == state_validators[new_state]
    IN  { r \in [1..Len(validators) -> ValidatorResult] :
            \A i \in 1..Len(validators) :
                (validators[i] = "validate_navigation_state"
                 /\ emergency_stop_active) => r[i] = "false" }

\* MotorController.execute_command(MotorCommand(left_speed, right_speed)):
\* ignored in the emergency-stop condition, otherwise both motors get their
\* speed
execute_command(mc, left_speed, right_speed) ==
    IF mc.emergency_stop THEN mc
    ELSE [mc EXCEPT !.left_speed = left_speed,
                    !.right_speed = right_speed,
                    !.is_moving = (left_speed # 0 \/ right_speed # 0)]

\* MotorController.stop_all
stop_all(mc) == [execute_command(mc, 0, 0) EXCEPT !.is_moving = FALSE]

\* MotorController.emergency_stop_all
emergency_stop_all(mc) ==
    [mc EXCEPT !.emergency_stop = TRUE, !.left_speed = 0,
               !.right_speed = 0, !.is_moving = FALSE]

\* on_emergency_stop_exit (the only exit callback registered)
execute_exit_callbacks(state, flag) ==
    IF state = "emergency_stop" THEN FALSE ELSE flag

\* on_emergency_stop_enter sets the flag (the other enter callbacks leave
\* it): the flag alone
execute_enter_callbacks(state, flag) ==
    IF state = "emergency_stop" THEN TRUE ELSE flag

\* what the enter callbacks do to the MotorController: on_charging_enter
\* awaits stop_all(); on_emergency_stop_enter awaits
\* self.motor_controller.emergency_stop(), which is the bool attribute set
\* in MotorController.__init__ and not a method, so the call raises
\* TypeError, which _execute_enter_callbacks catches and logs
enter_callbacks_motors(state, mc) ==
    IF state = "charging" THEN stop_all(mc) ELSE mc

\* a step of transition_to's try block has run
step_done(c, step) == [c EXCEPT !.steps = Append(@, step)]

\* await self._execute_exit_callbacks(old_state)
run_exit_callbacks(c, old_state) ==
    step_done([c EXCEPT !.emergency_stop_active =
                            execute_exit_callbacks(old_state, @)],
              "exit_callbacks")

\* self._state_history.append(transition)
append_history(c, old_state, new_state) ==
    step_done([c EXCEPT !.state_history =
                            Append(@, [from_state |-> old_state,
                                       to_state |-> new_state,
                                       success |-> TRUE])],
              "history")

\* self._current_state = new_state
change_state(c, new_state) ==
    step_done([c EXCEPT !.current_state = new_state], "state")

\* await self._execute_enter_callbacks(new_state)
run_enter_callbacks(c, new_state) ==
    step_done([c EXCEPT !.emergency_stop_active =
                            execute_enter_callbacks(new_state, @),
                        !.motor_controller =
                            enter_callbacks_motors(new_state, @)],
              "enter_callbacks")

\* await self._publish_state_change_event(old_state, new_state, reason,
\* data): one SystemState event; with it are kept the state the machine is
\* in and the emergency flag at the time of the publication
publish_state_change_event(c, old_state, new_state) ==
    step_done([c EXCEPT !.published =
                            Append(@, [old_state |-> old_state,
                                       new_state |-> new_state,
                                       current_state |-> c.current_state,
                                       emergency_stop_active |->
                                           c.emergency_stop_active])],
              "publish")

\* the try block with the event published before the enter callbacks run
try_block_publish_early(c, old_state, new_state) ==
    run_enter_callbacks(
        publish_state_change_event(
            change_state(
                append_history(run_exit_callbacks(c, old_state),
                               old_state, new_state),
                new_state),
            old_state, new_state),
        new_state)

\* the try block of transition_to: its five steps in the order of the code
try_block(c, old_state, new_state) ==
    publish_state_change_event(
        run_enter_callbacks(
            change_state(
                append_history(run_exit_callbacks(c, old_state),
                               old_state, new_state),
                new_state),
            new_state),
        old_state, new_state)

\* transition_to(new_state, reason, data), called by `origin`, with mc the
\* MotorController as the call finds it: what it does to the state machine,
\* the event bus and the MotorController.
\* The steps inside its try block do not raise for arguments of the declared
\* types: the callbacks' exceptions are caught in _execute_*_callbacks and
\* publish is a put on an unbounded queue, so the except branch (which
\* appends a success=False record) is not taken.
transition(new_state, results, origin, mc) ==
    LET old_state == current_state
        allowed   == is_transition_allowed(current_state, new_state)
        valid     == validate_state_conditions(results)
        ret       == allowed /\ valid
        found     == [current_state |-> current_state,
                      state_history |-> state_history,
                      emergency_stop_active |-> emergency_stop_active,
                      motor_controller |-> mc, published |-> <<>>,
                      steps |-> <<>>]
        done      == IF ret THEN try_block(found, old_state, new_state)
                     ELSE found
    IN  /\ g_attempts < MaxCalls
        /\ g_attempts' = g_attempts + 1
        /\ g_last_call' = [from_state |-> old_state, to_state |-> new_state,
                           results |-> IF allowed THEN results ELSE <<>>,
                           ret |-> ret, origin |-> origin,
                           steps |-> done.steps,
                           published |-> done.published]
        /\ state_history' = done.state_history
        /\ current_state' = done.current_state
        /\ emergency_stop_active' = done.emergency_stop_active
        /\ motor_controller' = done.motor_controller
        /\ IF done.published # <<>>
           THEN /\ publish("system_state", 0)
                /\ UNCHANGED <<subscribers, weak_subscribers, collected,
                               event_history, is_running, processor_task,
                               g_handled, g_last_dispatched,
                               g_unsubscribed>>
           ELSE UNCHANGED busvars
        /\ UNCHANGED state_validators

\* await state_machine.transition_to(new_state, reason, data) with nothing
\* else going on
transition_to(new_state, results, origin) ==
    /\ transition(new_state, results, origin, motor_controller)
    /\ UNCHANGED <<navvars, locvars, car_controller, main_loop, sharedvars>>

\* a caller of the state machine asks for any target state
TransitionTo ==
    \E new_state \in RobotState :
        \E results \in validator_results(new_state) :
            transition_to(new_state, results, "caller")

\* ImprovedRobotSystem.handle_emergency_event: the subscriber of Emergency
\* events asks for EmergencyStop
HandleEmergencyEvent ==
    \E results \in validator_results("emergency_stop") :
        transition_to("emergency_stop", results, "emergency")

\* number of validators registered with add_state_validator so far
RECURSIVE validators_added(_)
validators_added(states) ==
    IF states = {} THEN 0
    ELSE LET s == CHOOSE x \in states : TRUE
         IN  Cardinality({i \in 1..Len(state_validators[s]) :
                             state_validators[s][i] = "validator"})
             + validators_added(states \ {s})

\* add_state_validator(state, validator)
AddStateValidator ==
    \E state \in RobotState :
        /\ validators_added(RobotState) < MaxValidators
        /\ state_validators' =
              [state_validators EXCEPT ![state] = Append(@, "validator")]
        /\ UNCHANGED <<current_state, state_history, emergency_stop_active,
                       g_last_call, g_attempts, busvars, navvars, locvars,
                       hwvars>>

----------------------------------------------------------------------------
(* Initial state: RobotStateMachine.__init__, EventBus.__init__ and         *)
(* _setup_state_machine_callbacks                                           *)

SMInit ==
    /\ current_state = "initializing"
    /\ state_history = <<>>
    /\ state_validators =
          [s \in RobotState |->
              IF s = "navigating" THEN <<"validate_navigation_state">>
              ELSE <<>>]
    /\ emergency_stop_active = FALSE
    /\ g_last_call = [from_state |-> "initializing",
                      to_state |-> "initializing", results |-> <<>>,
                      ret |-> FALSE, origin |-> "none", steps |-> <<>>,
                      published |-> <<>>]
    /\ g_attempts = 0

\* the dispatch task when it handles no event (g_subs and g_registered
\* remember, for the event in flight, who was subscribed when it was
\* published and how often each handler was registered when it was taken)
idle_task(pc) ==
    [pc |-> pc, event |-> [event_id |-> 0, event_type |-> "none"],
     tasks |-> <<>>, g_subs |-> {}, g_registered |-> [h \in Handlers |-> 0]]

BusInit ==
    /\ subscribers = [k \in EventType |-> <<>>]
    /\ weak_subscribers = [k \in EventType |-> {}]
    /\ collected = {}
    /\ event_queue = <<>>
    /\ event_history = <<>>
    /\ is_running = FALSE
    /\ processor_task = idle_task("none")
    /\ stats = [events_published |-> 0, events_processed |-> 0,
                events_by_type |-> [k \in EventType |-> 0]]
    /\ g_created = 0
    /\ g_handled = <<>>
    /\ g_last_dispatched = 0
    /\ g_unsubscribed = {}

\* the value None of an Optional[NavigationCommand]
no_command ==
    [command_type |-> "none", linear_speed |-> 0, angular_speed |-> 0]

\* the PathPlanner call made last: its name, the navigation state before it
\* and the states it assigned, what it returned (ok for set_goal, command
\* for get_next_move), whether _plan_path searched and with which obstacles
\* stamped into the grid, the obstacles given to compute_velocity, the
\* number of new obstacles, and for a control tick whether the sensors
\* reported less than emergency_stop_distance and whether a goal was set
\* and nearer than goal_tolerance
nav_call(op, before, states, ok, command, planned, stamped, given, new, em, within) ==
    [op |-> op, state_before |-> before, states |-> states, ok |-> ok,
     command |-> command, planned |-> planned, stamped |-> stamped,
     dwa_obstacles |-> given, new_obstacles |-> new, emergency |-> em,
     within |-> within]

\* no PathPlanner call made yet
no_nav_call ==
    nav_call("none", "idle", <<>>, FALSE, no_command, FALSE, <<>>, <<>>, 0,
             FALSE, FALSE)

\* PathPlanner.__init__: Idle, no goal (an Optional is a list of at most one
\* element), at the origin, no path, no obstacle, an empty grid, no map
PlannerInit ==
    /\ navigation_state = "idle"
    /\ current_goal = <<>>
    /\ current_position = [x |-> 0, y |-> 0]
    /\ current_theta = 0
    /\ current_path = <<>>
    /\ path_index = 0
    /\ dynamic_obstacles = <<>>
    /\ grid_data = {}
    /\ current_occupancy_map = FALSE
    /\ now = 0
    /\ g_nav = no_nav_call

\* no plan_path call and no compute_velocity call of their own
NoDirectCalls ==
    /\ astar_call = [pc |-> "none"]
    /\ dwa_call = [pc |-> "none"]

\* EncoderReader.__init__ and initialize: the counters at 0, the lock free,
\* no callback and no read in progress; g_reported is the sum of the deltas
\* get_incremental_data has returned so far
EncoderInit ==
    encoder_reader =
        [left_pulse_count |-> 0, right_pulse_count |-> 0,
         last_left_pulses |-> 0, last_right_pulses |-> 0,
         last_update_time |-> 0, lock |-> "free",
         callback |-> [pc |-> "idle", wheel |-> "left"],
         reader |-> [pc |-> "idle", left_delta |-> 0, right_delta |-> 0,
                     dt |-> 0],
         g_reported |-> [left |-> 0, right |-> 0]]

\* math.pi, with angles measured in quarter turns
pi == 2

\* Pose2D.normalize_angle: 2*pi is taken off while theta > pi and added
\* while theta < -pi
RECURSIVE normalize_angle(_)
normalize_angle(theta) ==
    IF theta > pi THEN normalize_angle(theta - 2 * pi)
    ELSE IF theta < -pi THEN normalize_angle(theta + 2 * pi)
    ELSE theta

\* Pose2D(x, y, theta): __post_init__ normalises the angle
Pose2D(x, y, theta) == [x |-> x, y |-> y, theta |-> normalize_angle(theta)]

\* Odometry.__init__: the pose at the origin, no distance travelled, both
\* variances 0.001 (in millionths), pose_timestamp the timestamp of
\* _current_pose; the velocities and _last_pose are read
\* by no modelled code and are left out.  g_op is the last call made on
\* the object
OdometryInit ==
    odometry =
        [current_pose |-> Pose2D(0, 0, 0), pose_timestamp |-> 0,
         total_distance |-> 0, position_variance |-> 1000,
         angle_variance |-> 1000, g_op |-> "none"]

\* no SensorFusion.update call made yet
no_tick ==
    [dt |-> 0, state_before |-> <<>>, steps |-> <<>>, raised |-> "none",
     propagated |-> FALSE, confidence |-> 0, pose_age |-> 0, imu_age |-> -1]

\* SensorFusion.__init__ with its ExtendedKalmanFilter.  The filter's
\* estimate (state vector and covariance P) is held as the sequence of the
\* steps applied to the initial estimate: two estimates are the same when
\* the same steps made them.  imu_data is <<>> for None; fused_pose is the
\* estimate the last FusedPose was generated from; g_tick records the last
\* update call and g_ticks counts them
FusionInit ==
    sensor_fusion =
        [ekf |-> [state |-> <<>>, last_update_time |-> 0],
         imu_data |-> <<>>, odometry_healthy |-> TRUE, imu_healthy |-> TRUE,
         fused_pose |-> <<>>, g_tick |-> no_tick, g_ticks |-> 0]

\* CarRunTurnController.__init__: MotorStatus(), every pin low; sleeping is
\* the number of timed commands inside asyncio.sleep, g_op the last call
CarInit ==
    car_controller =
        [status |-> [is_moving |-> FALSE, current_direction |-> "stop",
                     last_command_time |-> 0, emergency_stop |-> FALSE],
         pins |-> <<FALSE, FALSE, FALSE, FALSE>>,
         sleeping |-> 0, g_op |-> "none"]

\* MotorController.__init__ and initialize: both motors at speed 0, not in
\* the emergency-stop condition
MotorInit ==
    motor_controller =
        [emergency_stop |-> FALSE, is_moving |-> FALSE, left_speed |-> 0,
         right_speed |-> 0]

\* no planner command handed to the MotorController yet
no_planner_call ==
    [made |-> FALSE, tick_state |-> "none", state |-> "none",
     emergency_stop_active |-> FALSE, command_type |-> "none",
     raised |-> FALSE]

\* no set_navigation_goal call made yet
no_goal_call == [made |-> FALSE, ret |-> FALSE, accepted |-> FALSE]

\* start_main_loop before its first tick: pc is where the loop is (asleep
\* between two ticks, or inside _handle_navigating_state waiting for the
\* sensors), tick_state the state the tick read, is_running the flag of
\* ImprovedRobotSystem and shutdown where a shutdown() call stands; g_call
\* is the last execute_command call made with a planner command and g_goal
\* the last set_navigation_goal call: what it returned and whether its
\* transition_to was accepted
LoopInit ==
    main_loop = [pc |-> "sleeping", tick_state |-> "none",
                 is_running |-> TRUE, shutdown |-> "none",
                 g_call |-> no_planner_call, g_goal |-> no_goal_call]

LocInit == EncoderInit /\ OdometryInit /\ FusionInit

\* no transition_to call is suspended
CallsInit == transition_calls = {}

\* a Pose2D object (self._current_pose, the pose of a FusedPose, a copy)
pose_object(x) == [kind |-> "Pose2D", x |-> x, pose |-> 0]

\* a FusedPose object: its pose attribute refers to a Pose2D object
fused_pose_object(pose) == [kind |-> "FusedPose", x |-> 0, pose |-> pose]

\* Odometry.__init__ (self._current_pose = Pose2D()) and
\* SensorFusion.__init__ (self._fused_pose = FusedPose(pose=Pose2D())):
\* heap is the objects by identity, current_pose and fused_pose the
\* references the two estimators hold, handed the objects returned to
\* consumers with the value they had when they were returned, g_op the last
\* operation
PoseInit ==
    pose_objects = [heap |-> <<pose_object(0), pose_object(0),
                              fused_pose_object(2)>>,
                    current_pose |-> 1, fused_pose |-> 3,
                    handed |-> {}, g_op |-> "none"]

HwInit == CarInit /\ MotorInit /\ LoopInit /\ CallsInit /\ PoseInit

Init ==
    SMInit /\ BusInit /\ PlannerInit /\ NoDirectCalls /\ LocInit /\ HwInit

SMNext ==
    \/ TransitionTo
    \/ HandleEmergencyEvent
    \/ AddStateValidator

SMSpec == Init /\ [][SMNext]_vars

----------------------------------------------------------------------------
(* events/event_bus.py: the EventBus operations and its dispatch task *)

\* list.remove(h): the first entry equal to h goes, the others stay
remove_first(list, h) ==
    LET i == CHOOSE j \in DOMAIN list :
                 list[j] = h /\ \A k \in 1..(j - 1) : list[k] # h
    IN  SubSeq(list, 1, i - 1) \o SubSeq(list, i + 1, Len(list))

\* a set's elements in (some) iteration order
RECURSIVE set_to_seq(_)
set_to_seq(S) ==
    IF S = {} THEN <<>>
    ELSE LET x == CHOOSE y \in S : TRUE
         IN  <<x>> \o set_to_seq(S \ {x})

\* a bounded deque that refuses the new entry when it is full
deque_append_keep_oldest(deque, entry, maxlen) ==
    IF Len(deque) >= maxlen THEN deque ELSE Append(deque, entry)

\* collections.deque(maxlen).append: when full, the entry at the left end
\* (the oldest) is discarded
deque_append(deque, entry, maxlen) ==
    IF maxlen = 0 THEN <<>>
    ELSE IF Len(deque) >= maxlen THEN Append(Tail(deque), entry)
    ELSE Append(deque, entry)

\* the record _handle_event appends to the history
history_entry(event) ==
    [event_type |-> event.event_type, event_id |-> event.event_id]

\* _handle_event's all_handlers with the weak subscribers left out
all_handlers_strong_only(event_type) == subscribers[event_type]

\* _handle_event: all_handlers = handlers + weak_handlers
all_handlers(event_type) ==
    subscribers[event_type] \o set_to_seq(live_weak(event_type))

\* asyncio.gather without return_exceptions: it returns as soon as one task
\* has raised
gather_done_first_exception(tasks) ==
    \/ \A i \in DOMAIN tasks : tasks[i].status # "pending"
    \/ \E i \in DOMAIN tasks : tasks[i].status = "raised"

\* asyncio.gather(*tasks, return_exceptions=True): it returns when every
\* task has returned or raised
gather_done(tasks) ==
    \A i \in DOMAIN tasks : tasks[i].status # "pending"

\* registrations the bus holds for the kinds in `kinds`
RECURSIVE registrations(_)
registrations(kinds) ==
    IF kinds = {} THEN 0
    ELSE LET k == CHOOSE x \in kinds : TRUE
         IN  Len(subscribers[k]) + Cardinality(weak_subscribers[k])
             + registrations(kinds \ {k})

\* how many times each handler is registered for a kind right now
registered_now(event_type) ==
    [h \in Handlers |->
        count(subscribers[event_type], h)
        + (IF h \in live_weak(event_type) THEN 1 ELSE 0)]

\* a task of the fan-out in flight that has not yet invoked handler h
has_pending_task(event_type, h) ==
    /\ processor_task.event.event_type = event_type
    /\ \E i \in DOMAIN processor_task.tasks :
          /\ processor_task.tasks[i].handler = h
          /\ processor_task.tasks[i].status = "pending"

\* start()
Start ==
    /\ ~is_running
    /\ is_running' = TRUE
    /\ processor_task' = idle_task("waiting")
    /\ UNCHANGED <<navvars, locvars, hwvars, smvars, subscribers, weak_subscribers, collected,
                   event_queue, event_history, stats, g_created, g_handled,
                   g_last_dispatched, g_unsubscribed>>

\* stop(): the dispatch task is cancelled where it waits, at queue.get or at
\* gather; the handler tasks that have not run yet are cancelled with it.
\* The queue is not touched.
Stop ==
    /\ is_running
    /\ is_running' = FALSE
    /\ processor_task' = idle_task("done")
    /\ UNCHANGED <<navvars, locvars, hwvars, smvars, subscribers, weak_subscribers, collected,
                   event_queue, event_history, stats, g_created, g_handled,
                   g_last_dispatched, g_unsubscribed>>

\* subscribe(event_type, handler, weak_ref)
Subscribe ==
    \E event_type \in SubscribedKinds, call \in SubscribeCalls :
      LET handler == call[1]
          weak_ref == call[2]
      IN
        /\ handler \notin collected
        /\ registrations(EventType) < MaxSubs
        /\ IF weak_ref
           THEN /\ weak_subscribers' =
                     [weak_subscribers EXCEPT ![event_type] = @ \cup {handler}]
                /\ UNCHANGED subscribers
           ELSE /\ subscribers' =
                     [subscribers EXCEPT ![event_type] = Append(@, handler)]
                /\ UNCHANGED weak_subscribers
        /\ g_unsubscribed' = g_unsubscribed \ {<<event_type, handler>>}
        /\ UNCHANGED <<navvars, locvars, hwvars, smvars, collected, event_queue, event_history,
                       is_running, processor_task, stats, g_created, g_handled,
                       g_last_dispatched>>

\* unsubscribe(event_type, handler): only the strong list is looked at
unsubscribe(event_type, handler) ==
    subscribers' =
        IF count(subscribers[event_type], handler) > 0
        THEN [subscribers EXCEPT ![event_type] = remove_first(@, handler)]
        ELSE subscribers

\* unsubscribe(event_type, handler), called for a handler that is registered
Unsubscribe ==
    \E event_type \in SubscribedKinds, handler \in Handlers \ collected :
        /\ handler \in subscribed_to(event_type)
        /\ unsubscribe(event_type, handler)
        /\ UNCHANGED <<navvars, locvars, hwvars, smvars, weak_subscribers, collected, event_queue,
                       event_history, is_running, processor_task, stats,
                       g_created, g_handled, g_last_dispatched,
                       g_unsubscribed>>

\* the same call, remembered in g_unsubscribed when the handler can still be
\* reached by a delivery (a registration or a pending task of it is left)
UnsubscribeTracked ==
    \E event_type \in SubscribedKinds, handler \in Handlers \ collected :
        /\ handler \in subscribed_to(event_type)
        /\ unsubscribe(event_type, handler)
        /\ g_unsubscribed' =
              IF \/ count(subscribers[event_type], handler) > 1
                 \/ handler \in weak_subscribers[event_type]
                 \/ has_pending_task(event_type, handler)
              THEN g_unsubscribed \cup {<<event_type, handler>>}
              ELSE g_unsubscribed
        /\ UNCHANGED <<navvars, locvars, hwvars, smvars, weak_subscribers, collected, event_queue,
                       event_history, is_running, processor_task, stats,
                       g_created, g_handled, g_last_dispatched>>

\* the garbage collector frees a handler that only weak refs point to
Collect ==
    \E handler \in Handlers \ collected :
        /\ \E k \in EventType : handler \in weak_subscribers[k]
        /\ \A k \in EventType : count(subscribers[k], handler) = 0
        /\ \A i \in DOMAIN processor_task.tasks :
              processor_task.tasks[i].handler # handler
        /\ collected' = collected \cup {handler}
        /\ UNCHANGED <<navvars, locvars, hwvars, smvars, subscribers, weak_subscribers, event_queue,
                       event_history, is_running, processor_task, stats,
                       g_created, g_handled, g_last_dispatched,
                       g_unsubscribed>>

\* publish(event, priority)
Publish ==
    \E call \in PublishCalls :
        /\ g_created < MaxEvents
        /\ publish(call[1], call[2])
        /\ UNCHANGED <<navvars, locvars, hwvars, smvars, subscribers, weak_subscribers, collected,
                       event_history, is_running, processor_task, g_handled,
                       g_last_dispatched, g_unsubscribed>>

\* _process_events with _handle_event started as a task of its own instead
\* of awaited: the loop is back at queue.get while the handlers still run
at_queue_get_detached(task) == task.pc \in {"waiting", "handling"}

\* _process_events is at `await self._event_queue.get()`: the loop awaits
\* _handle_event(event) before it comes back here
at_queue_get(task) == task.pc = "waiting"

\* _process_events takes the next queued item and _handle_event runs up to
\* its gather: history entry, dead weak refs dropped, one task per handler;
\* with no handler at all it returns at once and the loop goes on
Dispatch ==
    /\ is_running
    /\ at_queue_get(processor_task)
    /\ event_queue # <<>>
    /\ LET item     == Head(event_queue)
           event    == item.event
           handlers == all_handlers(event.event_type)
       IN  /\ event_queue' = Tail(event_queue)
           /\ event_history' =
                 deque_append(event_history, history_entry(event), MaxHistory)
           /\ weak_subscribers' =
                 [weak_subscribers EXCEPT
                    ![event.event_type] = live_weak(event.event_type)]
           /\ g_handled' = Append(g_handled, event.event_id)
           /\ g_last_dispatched' = event.event_id
           /\ processor_task' =
                 IF handlers = <<>> THEN processor_task
                 ELSE [pc |-> "handling", event |-> event,
                       tasks |-> [i \in DOMAIN handlers |->
                                    [handler |-> handlers[i],
                                     status |-> "pending"]],
                       g_subs |-> item.g_subs,
                       g_registered |-> registered_now(event.event_type)]
    /\ UNCHANGED <<navvars, locvars, hwvars, smvars, subscribers, collected, is_running, stats,
                   g_created, g_unsubscribed>>

\* one of the handler tasks of the fan-out runs: the handler is invoked with
\* the event and returns or raises
RunTask ==
    /\ processor_task.pc = "handling"
    /\ \E i \in DOMAIN processor_task.tasks, status \in {"ok", "raised"} :
        /\ processor_task.tasks[i].status = "pending"
        /\ processor_task' =
              [processor_task EXCEPT !.tasks[i].status = status]
    /\ UNCHANGED <<navvars, locvars, hwvars, smvars, subscribers, weak_subscribers, collected,
                   event_queue, event_history, is_running, stats, g_created,
                   g_handled, g_last_dispatched, g_unsubscribed>>

\* gather returns: _handle_event logs the failures and counts the event,
\* _process_events marks the item done and loops to the next queue.get
Join ==
    /\ processor_task.pc = "handling"
    /\ gather_done(processor_task.tasks)
    /\ stats' = [stats EXCEPT !.events_processed = @ + 1]
    /\ processor_task' = idle_task("waiting")
    /\ UNCHANGED <<navvars, locvars, hwvars, smvars, subscribers, weak_subscribers, collected,
                   event_queue, event_history, is_running, g_created,
                   g_handled, g_last_dispatched, g_unsubscribed>>

\* publish_sync(event): _handle_event on the caller's control flow, every
\* handler invoked before it returns
PublishSync ==
    \E event_type \in UsedKinds :
        LET event    == [event_id |-> g_created + 1,
                         event_type |-> event_type]
            handlers == all_handlers(event_type)
        IN  /\ g_created < MaxEvents
            /\ event_history' =
                  deque_append(event_history, history_entry(event), MaxHistory)
            /\ weak_subscribers' =
                  [weak_subscribers EXCEPT ![event_type] = live_weak(event_type)]
            /\ stats' = IF handlers = <<>> THEN stats
                        ELSE [stats EXCEPT !.events_processed = @ + 1]
            /\ g_created' = g_created + 1
            /\ g_handled' = Append(g_handled, event.event_id)
            /\ UNCHANGED <<navvars, locvars, hwvars, smvars, subscribers, collected, event_queue,
                           is_running, processor_task, g_last_dispatched, g_unsubscribed>>

\* clear_history()
ClearHistory ==
    /\ event_history # <<>>
    /\ event_history' = <<>>
    /\ g_handled' = <<>>
    /\ UNCHANGED <<navvars, locvars, hwvars, smvars, subscribers, weak_subscribers, collected,
                   event_queue, is_running, processor_task, stats, g_created,
                   g_last_dispatched, g_unsubscribed>>

\* the bus as its subscribers see it: registrations come and go, events are
\* published and dispatched
DeliveryNext ==
    \/ Start
    \/ Stop
    \/ Subscribe
    \/ Unsubscribe
    \/ Collect
    \/ Publish
    \/ Dispatch
    \/ RunTask
    \/ Join

DeliverySpec == Init /\ [][DeliveryNext]_vars

\* DeliverySpec with the unsubscribe calls remembered
UnsubscribeNext ==
    \/ Start
    \/ Stop
    \/ Subscribe
    \/ UnsubscribeTracked
    \/ Collect
    \/ Publish
    \/ Dispatch
    \/ RunTask
    \/ Join
    \/ PublishSync

UnsubscribeSpec == Init /\ [][UnsubscribeNext]_vars

\* the bus as its publishers see it: the queue, the dispatch task's life
\* cycle and the history
BusNext ==
    \/ Start
    \/ Stop
    \/ Subscribe
    \/ Publish
    \/ PublishSync
    \/ Dispatch
    \/ RunTask
    \/ Join
    \/ ClearHistory

BusSpec == Init /\ [][BusNext]_vars

----------------------------------------------------------------------------
(* Claims about the state machine, checked under SMSpec *)

Called == g_last_call.origin # "none"

\* C1: a rejected transition (edge not in the table, or a validator that
\* returns false) still appends a StateTransition with success=false, so the
\* history has one entry per attempted transition.
C1_RejectedTransitionRecorded ==
    /\ Len(state_history) = g_attempts
    /\ (Called /\ ~g_last_call.ret) =>
          /\ state_history # <<>>
          /\ state_history[Len(state_history)] =
                [from_state |-> g_last_call.from_state,
                 to_state |-> g_last_call.to_state, success |-> FALSE]

\* C2: transition_to returns true and makes the target the current state
\* exactly when the edge (current state, target) is in the adjacency table
\* and every validator registered for the target returns true; in every
\* other case (a validator that returns false or raises included) it returns
\* false and leaves the current state as it was.
C2_FailsClosed ==
    Called =>
        LET c    == g_last_call
            edge == c.to_state \in build_transition_rules[c.from_state]
            pass == \A i \in DOMAIN c.results : c.results[i] = "true"
        IN  /\ c.ret <=> (edge /\ pass)
            /\ c.ret => current_state = c.to_state
            /\ ~c.ret => current_state = c.from_state

\* Idle -> Navigating was accepted, and a later call whose validator raised
\* was refused
C2_Witness ==
    /\ \E i \in DOMAIN state_history :
          state_history[i] = [from_state |-> "idle", to_state |-> "navigating",
                              success |-> TRUE]
    /\ Called /\ ~g_last_call.ret
    /\ \E i \in DOMAIN g_last_call.results : g_last_call.results[i] = "raise"
    /\ current_state = g_last_call.from_state

C4_EmergencyAlwaysStops ==
    (g_last_call.origin = "emergency" /\ g_last_call.from_state # "shutdown")
        => current_state = "emergency_stop"


\* the steps of a successful transition_to, in order
TransitionSteps ==
    <<"exit_callbacks", "history", "state", "enter_callbacks", "publish">>

\* the last transition_to call, when it succeeded, ran the five steps in
\* order and published one event, with the old and the new state, after the
\* state had changed and the enter callbacks had run; when it was rejected
\* it ran no step
StepsOfLastCall ==
    Called =>
        IF g_last_call.ret
        THEN /\ g_last_call.steps = TransitionSteps
             /\ g_last_call.published =
                   <<[old_state |-> g_last_call.from_state,
                      new_state |-> g_last_call.to_state,
                      current_state |-> g_last_call.to_state,
                      emergency_stop_active |-> emergency_stop_active]>>
        ELSE /\ g_last_call.steps = <<>>
             /\ g_last_call.published = <<>>

\* a transition_to call puts exactly one event on the queue when it
\* succeeds; a rejected call leaves the state machine, the flag and the
\* event bus as they are
EffectOfCall ==
    g_attempts' # g_attempts =>
        IF g_last_call'.ret
        THEN /\ Len(event_queue') = Len(event_queue) + 1
             /\ g_created' = g_created + 1
             /\ current_state' = g_last_call'.to_state
             /\ state_history' =
                   Append(state_history,
                          [from_state |-> current_state,
                           to_state |-> current_state', success |-> TRUE])
        ELSE UNCHANGED <<current_state, state_history,
                         emergency_stop_active, motor_controller, busvars>>

\* C29: a successful transition_to runs the exit callbacks of the old state,
\* appends the transition to the history, changes the current state, runs
\* the enter callbacks of the new state and only then publishes exactly one
\* SystemState event (old state, new state); a rejected transition runs no
\* callback and publishes no event
C29_StepsInOrder == []StepsOfLastCall /\ [][EffectOfCall]_vars

\* a successful transition out of EmergencyStop (its exit callback has
\* cleared the flag) and one into it (its enter callback has set the flag
\* before the event was published)
C29_Witness ==
    /\ Called /\ g_last_call.ret
    /\ g_last_call.from_state = "emergency_stop"
    /\ \E i \in DOMAIN state_history :
          state_history[i].to_state = "emergency_stop"

----------------------------------------------------------------------------
(* Claims about the event bus *)

InFlight == processor_task.pc = "handling"

\* number of tasks of the fan-out in flight that belong to handler h
tasks_of(h) ==
    Cardinality({i \in DOMAIN processor_task.tasks :
                    processor_task.tasks[i].handler = h})

\* every task of the fan-out in flight has run (returned or raised)
AllTasksRan ==
    \A i \in DOMAIN processor_task.tasks :
        processor_task.tasks[i].status \in {"ok", "raised"}

C6_NoDeliveryAfterUnsubscribe ==
    [][ /\ (InFlight /\ processor_task'.pc = "handling") =>
              \A i \in DOMAIN processor_task.tasks :
                  (processor_task.tasks[i].status = "pending"
                   /\ processor_task'.tasks[i].status # "pending")
                  => <<processor_task.event.event_type,
                       processor_task.tasks[i].handler>> \notin g_unsubscribed
        /\ (g_created' = g_created + 1 /\ g_handled' # g_handled) =>
              \A k \in UsedKinds :
                  (event_history' # <<>>
                   /\ event_history'[Len(event_history')].event_type = k)
                  => \A h \in subscribed_to(k) : <<k, h>> \notin g_unsubscribed
      ]_vars

C8_StopLeavesNothingQueued ==
    [][ (is_running /\ ~is_running') => event_queue' = <<>> ]_vars

last_n(seq, n) ==
    IF n >= Len(seq) THEN seq ELSE SubSeq(seq, Len(seq) - n + 1, Len(seq))

----------------------------------------------------------------------------
(* navigation/path_planner.py: Point, Grid.                                 *)
(* World coordinates are integers; a grid cell is config.grid_size = 2      *)
(* units wide, so that cell centres and cell borders are both integers.     *)
(* Floats are fixed-point numbers: a distance is kept in thousandths,       *)
(* rounded down.                                                            *)

\* NavigationConfig as this model instantiates it
config ==
    [grid_size |-> 2, planning_range |-> PlanningRange,
     obstacle_inflation |-> 1, goal_tolerance |-> 2,
     emergency_stop_distance |-> 2, max_iterations |-> 1000,
     max_linear_speed |-> 1, max_angular_speed |-> 1]

Point(x, y) == [x |-> x, y |-> y]

\* abs(n)
abs(n) == IF n < 0 THEN -n ELSE n

\* int(num / den) for den > 0: truncation towards zero
int_div(num, den) ==
    IF num >= 0 THEN num \div den ELSE -((-num) \div den)

\* (self.x - other.x)**2 + (self.y - other.y)**2
distance_squared(p, q) ==
    (p.x - q.x) * (p.x - q.x) + (p.y - q.y) * (p.y - q.y)

\* floor(1000 * math.sqrt(n)) found by bisection of lo..hi
RECURSIVE sqrt_bisect(_, _, _)
sqrt_bisect(n, lo, hi) ==
    IF lo >= hi THEN lo
    ELSE LET mid == (lo + hi + 1) \div 2
         IN  IF mid * mid <= n * 1000000
             THEN sqrt_bisect(n, mid, hi)
             ELSE sqrt_bisect(n, lo, mid - 1)

\* the arguments math.sqrt is called with in this model
SqrtArgs == 0..(2 * (2 * PlanningRange + 16) * (2 * PlanningRange + 16))

\* (every root is below 46 * 1000)
sqrt_table == [n \in SqrtArgs |-> sqrt_bisect(n, 0, 46 * 1000)]

\* math.sqrt, in thousandths
sqrt(n) == sqrt_table[n]

\* Point.distance_to, in thousandths
distance_to(p, q) == sqrt(distance_squared(p, q))

\* Grid.__init__: the map is centred on the origin; data is the set of cells
\* whose value is 1.0 (every other cell is 0.0)
Grid(width, height, resolution) ==
    [width |-> width, height |-> height, resolution |-> resolution,
     grid_width |-> int_div(width, resolution),
     grid_height |-> int_div(height, resolution),
     origin |-> Point(-(width \div 2), -(height \div 2)),
     data |-> {}]

\* Grid.world_to_grid
world_to_grid(grid, point) ==
    <<int_div(point.x - grid.origin.x, grid.resolution),
      int_div(point.y - grid.origin.y, grid.resolution)>>

\* Grid.grid_to_world: the centre of the cell
grid_to_world(grid, grid_x, grid_y) ==
    Point(grid.origin.x + ((2 * grid_x + 1) * grid.resolution) \div 2,
          grid.origin.y + ((2 * grid_y + 1) * grid.resolution) \div 2)

\* Grid.is_valid_grid
is_valid_grid(grid, grid_x, grid_y) ==
    /\ 0 <= grid_x /\ grid_x < grid.grid_width
    /\ 0 <= grid_y /\ grid_y < grid.grid_height

\* Grid.is_free
is_free(grid, grid_x, grid_y) ==
    IF ~is_valid_grid(grid, grid_x, grid_y) THEN FALSE
    ELSE <<grid_x, grid_y>> \notin grid.data

\* Grid.set_obstacle: the grid with the cells whose centre is within radius
\* of the point set to occupied
set_obstacle(grid, point, radius) ==
    LET center      == world_to_grid(grid, point)
        grid_radius == int_div(radius, grid.resolution) + 1
        window      == {<<center[1] + dx, center[2] + dy>> :
                           dx \in (-grid_radius)..grid_radius,
                           dy \in (-grid_radius)..grid_radius}
    IN  [grid EXCEPT !.data = @ \cup
            {c \in window :
                /\ is_valid_grid(grid, c[1], c[2])
                /\ distance_squared(point, grid_to_world(grid, c[1], c[2]))
                       <= radius * radius}]

\* Grid.clear_obstacles
clear_obstacles(grid) == [grid EXCEPT !.data = {}]

\* all cells of the grid
cells_of(grid) ==
    (0..(grid.grid_width - 1)) \X (0..(grid.grid_height - 1))

----------------------------------------------------------------------------
(* navigation/path_planner.py: AStarPlanner *)

\* AStarPlanner._distance, in thousandths
distance(pos1, pos2) ==
    LET dx == pos1[1] - pos2[1]
        dy == pos1[2] - pos2[2]
    IN  sqrt(dx * dx + dy * dy)

\* AStarPlanner._heuristic
heuristic(pos1, pos2) == distance(pos1, pos2)

\* _get_neighbors that also reaches the cells two steps away
get_neighbors_jumping(grid, grid_pos) ==
    {n \in {<<grid_pos[1] + dx, grid_pos[2] + dy>> :
                dx \in {-2, -1, 0, 1, 2}, dy \in {-2, -1, 0, 1, 2}} :
        n # grid_pos /\ is_valid_grid(grid, n[1], n[2])}

\* AStarPlanner._get_neighbors (8-connected)
get_neighbors(grid, grid_pos) ==
    {n \in {<<grid_pos[1] + dx, grid_pos[2] + dy>> :
                dx \in {-1, 0, 1}, dy \in {-1, 0, 1}} :
        n # grid_pos /\ is_valid_grid(grid, n[1], n[2])}

\* the order of the heap entries (f, (x, y)): Python's tuple comparison
entry_le(a, b) ==
    \/ a[1] < b[1]
    \/ /\ a[1] = b[1]
       /\ \/ a[2][1] < b[2][1]
          \/ a[2][1] = b[2][1] /\ a[2][2] <= b[2][2]

\* a heappop that returns the largest entry
heap_max(open_set) ==
    CHOOSE e \in open_set : \A o \in open_set : entry_le(o, e)

\* the entry heapq.heappop returns
heap_min(open_set) ==
    CHOOSE e \in open_set : \A o \in open_set : entry_le(e, o)

\* AStarPlanner._reconstruct_path
RECURSIVE reconstruct_path(_, _)
reconstruct_path(came_from, current) ==
    IF current \in DOMAIN came_from
    THEN Append(reconstruct_path(came_from, came_from[current]), current)
    ELSE <<current>>

\* the while loop of plan_path, from the state st of its local variables.
\* The neighbours of one node are distinct keys of came_from and g_score, so
\* the for loop over them is one simultaneous update; a node is pushed again
\* only with a smaller f, so the heap never holds an entry twice.
RECURSIVE astar_loop(_, _, _, _)
astar_loop(grid, goal_grid, max_iterations, st) ==
    IF st.open_set = {} \/ st.iteration >= max_iterations
    THEN [path |-> <<>>, iterations |-> st.iteration]
    ELSE
        LET top       == heap_min(st.open_set)
            current   == top[2]
            iteration == st.iteration + 1
            tentative_g_score(n) == st.g_score[current] + distance(current, n)
            improved  ==
                {n \in get_neighbors(grid, current) :
                    /\ is_free(grid, n[1], n[2])
                    /\ \/ n \notin DOMAIN st.g_score
                       \/ tentative_g_score(n) < st.g_score[n]}
        IN  IF current = goal_grid
            THEN LET path == reconstruct_path(st.came_from, current)
                 IN  [path |-> [i \in 1..Len(path) |->
                                   grid_to_world(grid, path[i][1], path[i][2])],
                      iterations |-> iteration]
            ELSE astar_loop(grid, goal_grid, max_iterations,
                    [open_set |->
                        (st.open_set \ {top}) \cup
                        {<<tentative_g_score(n) + heuristic(n, goal_grid), n>> :
                            n \in improved},
                     came_from |->
                        [n \in improved |-> current] @@ st.came_from,
                     g_score |->
                        [n \in improved |-> tentative_g_score(n)]
                            @@ st.g_score,
                     iteration |-> iteration])

\* plan_path without its check of the start cell
plan_path_unchecked(grid, start, goal, max_iterations) ==
    LET start_grid == world_to_grid(grid, start)
        goal_grid  == world_to_grid(grid, goal)
    IN  IF ~is_free(grid, goal_grid[1], goal_grid[2])
        THEN [path |-> <<>>, iterations |-> 0]
        ELSE astar_loop(grid, goal_grid, max_iterations,
                [open_set |-> {<<0, start_grid>>},
                 came_from |-> <<>>,
                 g_score |-> (start_grid :> 0),
                 iteration |-> 0])

\* AStarPlanner.plan_path: the path and the number of pops of the open set
plan_path(grid, start, goal, max_iterations) ==
    LET start_grid == world_to_grid(grid, start)
        goal_grid  == world_to_grid(grid, goal)
    IN  IF ~is_free(grid, start_grid[1], start_grid[2])
        THEN [path |-> <<>>, iterations |-> 0]
        ELSE IF ~is_free(grid, goal_grid[1], goal_grid[2])
        THEN [path |-> <<>>, iterations |-> 0]
        ELSE astar_loop(grid, goal_grid, max_iterations,
                [open_set |-> {<<0, start_grid>>},
                 came_from |-> <<>>,
                 g_score |-> (start_grid :> 0),
                 iteration |-> 0])

\* the grid of the planner: Grid(planning_range * 2, planning_range * 2,
\* grid_size), without obstacles
empty_grid ==
    Grid(config.planning_range * 2, config.planning_range * 2,
         config.grid_size)

\* the occupied cells plan_path is called with: any part of a wall along the
\* second column and of a wall along the second row
WallCells ==
    {c \in cells_of(empty_grid) : c[1] = 1 \/ c[2] = 1}

\* the goals plan_path is called with: the centre of every cell, a point
\* less than one cell left of the grid and a point right of the grid
AStarGoals ==
    {grid_to_world(empty_grid, c[1], c[2]) : c \in cells_of(empty_grid)}
    \cup {Point(empty_grid.origin.x - 1, 0),
          Point(empty_grid.origin.x + empty_grid.width + 1, 0)}

\* the starts plan_path is called with: the centre of every cell of the
\* first column and the point left of the grid
AStarStarts ==
    {p \in AStarGoals : p.x <= grid_to_world(empty_grid, 0, 0).x}

\* a caller is about to call plan_path(start, goal, max_iterations) on a grid
AStarInit ==
    \E data \in SUBSET WallCells, start \in AStarStarts, goal \in AStarGoals,
       max_iterations \in {MaxIterations, config.max_iterations} :
        astar_call = [pc |-> "called", data |-> data, start |-> start,
                      goal |-> goal, max_iterations |-> max_iterations,
                      path |-> <<>>, iterations |-> 0]

\* the call returns
PlanPath ==
    /\ astar_call.pc = "called"
    /\ LET result == plan_path([empty_grid EXCEPT !.data = astar_call.data],
                               astar_call.start, astar_call.goal,
                               astar_call.max_iterations)
       IN  astar_call' = [astar_call EXCEPT !.pc = "returned",
                                            !.path = result.path,
                                            !.iterations = result.iterations]
    /\ UNCHANGED <<smvars, busvars, locvars, hwvars, navigation_state, current_goal,
                   current_position, current_theta, current_path, path_index,
                   dynamic_obstacles, grid_data, current_occupancy_map, now,
                   g_nav, dwa_call>>

AStarNext == PlanPath

\* the objects as constructed, and a caller about to call plan_path
AStarStart ==
    /\ SMInit /\ BusInit /\ PlannerInit /\ dwa_call = [pc |-> "none"]
    /\ LocInit /\ HwInit
    /\ AStarInit

AStarSpec == AStarStart /\ [][AStarNext]_vars

----------------------------------------------------------------------------
(* navigation/path_planner.py: Obstacle, DynamicWindowApproach.             *)
(* Headings and turn rates are whole quarter turns and speeds are whole     *)
(* units per step (dt = 1), so that every trajectory point is an integer    *)
(* point: math.cos and math.sin are exact on these headings.                *)

Obstacle(center, radius, timestamp) ==
    [center |-> center, radius |-> radius, timestamp |-> timestamp]

\* Obstacle.contains_point: center.distance_to(point) <= radius
contains_point(obstacle, point) ==
    distance_squared(obstacle.center, point)
        <= obstacle.radius * obstacle.radius

\* max_age of Obstacle.is_expired
max_age == 5

\* Obstacle.is_expired
is_expired(obstacle, current_time) ==
    (current_time - obstacle.timestamp) > max_age

\* math.cos and math.sin of a heading given in quarter turns
cos(theta) ==
    CASE theta % 4 = 0 -> 1 [] theta % 4 = 2 -> -1 [] OTHER -> 0
sin(theta) ==
    CASE theta % 4 = 1 -> 1 [] theta % 4 = 3 -> -1 [] OTHER -> 0

\* float('inf'): larger than every score
inf == 1000 * 1000 * 1000

\* DynamicWindowApproach.__init__(config.max_linear_speed,
\* config.max_angular_speed); the score weights are in tenths
dwa ==
    [max_linear_vel |-> config.max_linear_speed,
     max_angular_vel |-> config.max_angular_speed,
     v_resolution |-> 1, w_resolution |-> 1,
     goal_weight |-> 10, obstacle_weight |-> 20, velocity_weight |-> 1]

\* np.arange(start, stop, step) as a list
RECURSIVE arange(_, _, _)
arange(start, stop, step) ==
    IF start >= stop THEN <<>>
    ELSE <<start>> \o arange(start + step, stop, step)

\* the number of points _predict_trajectory rolls out
steps == 10

\* DynamicWindowApproach._predict_trajectory: the points after the first
\* `done` ones, from the pose (x, y, th) reached so far
RECURSIVE predict_from(_, _, _, _, _, _)
predict_from(x, y, th, v, w, done) ==
    IF done >= steps THEN <<>>
    ELSE LET nx == x + v * cos(th)
             ny == y + v * sin(th)
         IN  <<Point(nx, ny)>> \o predict_from(nx, ny, th + w, v, w, done + 1)

\* DynamicWindowApproach._predict_trajectory
predict_trajectory(pos, theta, v, w) ==
    predict_from(pos.x, pos.y, theta, v, w, 0)

\* _check_collision that looks at the end of the trajectory only
check_collision_end_only(trajectory, obstacles) ==
    \E j \in DOMAIN obstacles :
        contains_point(obstacles[j], trajectory[Len(trajectory)])

\* DynamicWindowApproach._check_collision
check_collision(trajectory, obstacles) ==
    \E i \in DOMAIN trajectory : \E j \in DOMAIN obstacles :
        contains_point(obstacles[j], trajectory[i])

\* the least element of a non-empty set of numbers
minimum(S) == CHOOSE m \in S : \A n \in S : m <= n

\* DynamicWindowApproach._evaluate_trajectory, in ten-thousandths; without
\* obstacles min_obstacle_dist stays float('inf') and so does the score
evaluate_trajectory(trajectory, goal, obstacles, v, w) ==
    IF obstacles = <<>> THEN inf
    ELSE LET end_point  == trajectory[Len(trajectory)]
             goal_score == -distance_to(end_point, goal) * dwa.goal_weight
             min_obstacle_dist ==
                minimum({distance_to(obstacles[j].center, trajectory[i])
                            - 1000 * obstacles[j].radius :
                         i \in DOMAIN trajectory, j \in DOMAIN obstacles})
             obstacle_score == min_obstacle_dist * dwa.obstacle_weight
             velocity_score == 1000 * v * dwa.velocity_weight
         IN  goal_score + obstacle_score + velocity_score

\* the velocity pairs compute_velocity samples, in the order of its two loops
velocity_samples ==
    LET vs == arange(0, dwa.max_linear_vel + dwa.v_resolution,
                     dwa.v_resolution)
        ws == arange(-dwa.max_angular_vel,
                     dwa.max_angular_vel + dwa.w_resolution,
                     dwa.w_resolution)
    IN  [k \in 1..(Len(vs) * Len(ws)) |->
            <<vs[((k - 1) \div Len(ws)) + 1], ws[((k - 1) % Len(ws)) + 1]>>]

\* the two loops of compute_velocity from sample k on, with the best pair
\* found so far
RECURSIVE sample_loop(_, _, _, _, _, _)
sample_loop(pos, theta, goal, obstacles, k, best) ==
    IF k > Len(velocity_samples) THEN <<best.v, best.w>>
    ELSE LET v == velocity_samples[k][1]
             w == velocity_samples[k][2]
             trajectory == predict_trajectory(pos, theta, v, w)
             score == evaluate_trajectory(trajectory, goal, obstacles, v, w)
         IN  IF check_collision(trajectory, obstacles)
             THEN sample_loop(pos, theta, goal, obstacles,
                              k + 1, best)
             ELSE IF score > best.score
             THEN sample_loop(pos, theta, goal, obstacles,
                              k + 1, [v |-> v, w |-> w, score |-> score])
             ELSE sample_loop(pos, theta, goal, obstacles,
                              k + 1, best)

\* DynamicWindowApproach.compute_velocity
compute_velocity(pos, theta, goal, obstacles) ==
    sample_loop(pos, theta, goal, obstacles, 1,
                [v |-> 0, w |-> 0, score |-> -inf])

\* the obstacle centres compute_velocity is called with, around a robot at
\* the origin
DWACenters ==
    {Point(0, 0), Point(1, 0), Point(2, 0), Point(-1, 0), Point(0, 1),
     Point(0, -1), Point(1, 1), Point(3, 1)}

\* the lists of at most n obstacles with these centres, as update_obstacles
\* makes them (radius config.obstacle_inflation)
RECURSIVE obstacle_lists(_)
obstacle_lists(n) ==
    IF n = 0 THEN {<<>>}
    ELSE obstacle_lists(n - 1) \cup
         {Append(l, Obstacle(c, config.obstacle_inflation, 0)) :
             l \in {m \in obstacle_lists(n - 1) : Len(m) = n - 1},
             c \in DWACenters}

\* a caller is about to call compute_velocity
DWAInit ==
    \E theta \in 0..3, goal \in {Point(3, 0), Point(0, -2), Point(1, 1)},
       obstacles \in obstacle_lists(MaxObstacles) :
        dwa_call = [pc |-> "called", pos |-> Point(0, 0), theta |-> theta,
                    goal |-> goal, obstacles |-> obstacles,
                    result |-> <<0, 0>>]

\* the call returns
ComputeVelocity ==
    /\ dwa_call.pc = "called"
    /\ dwa_call' =
          [dwa_call EXCEPT
              !.pc = "returned",
              !.result = compute_velocity(dwa_call.pos, dwa_call.theta,
                                          dwa_call.goal, dwa_call.obstacles)]
    /\ UNCHANGED <<smvars, busvars, locvars, hwvars, navigation_state, current_goal,
                   current_position, current_theta, current_path, path_index,
                   dynamic_obstacles, grid_data, current_occupancy_map, now,
                   g_nav, astar_call>>

DWANext == ComputeVelocity

\* the objects as constructed, and a caller about to call compute_velocity
DWAStart ==
    /\ SMInit /\ BusInit /\ PlannerInit /\ astar_call = [pc |-> "none"]
    /\ LocInit /\ HwInit
    /\ DWAInit

DWASpec == DWAStart /\ [][DWANext]_vars

----------------------------------------------------------------------------
(* PathPlanner (navigation/path_planner.py)                                *)
(*                                                                         *)
(* The operators below take the planner object as the record `self` and    *)
(* return the object they leave behind together with what they return.     *)
(* The coroutines of PathPlanner await nothing but each other, so a call   *)
(* runs to its end before any other call starts: one call is one step.     *)

\* the fields of the PathPlanner object
self ==
    [navigation_state |-> navigation_state, current_goal |-> current_goal,
     current_position |-> current_position, current_theta |-> current_theta,
     current_path |-> current_path, path_index |-> path_index,
     dynamic_obstacles |-> dynamic_obstacles,
     grid |-> [empty_grid EXCEPT !.data = grid_data],
     current_occupancy_map |-> current_occupancy_map]

\* the fields of the PathPlanner object after a call
becomes(planner) ==
    /\ navigation_state' = planner.navigation_state
    /\ current_goal' = planner.current_goal
    /\ current_position' = planner.current_position
    /\ current_theta' = planner.current_theta
    /\ current_path' = planner.current_path
    /\ path_index' = planner.path_index
    /\ dynamic_obstacles' = planner.dynamic_obstacles
    /\ grid_data' = planner.grid.data
    /\ current_occupancy_map' = planner.current_occupancy_map

\* PathPlanner._integrate_prebuilt_map_obstacles: without a map it returns
\* at once; with one it clears the grid and then, at the first occupied cell
\* of the map, calls Grid.add_obstacle, a method Grid does not have: the
\* AttributeError is caught and logged. Either way no cell is marked.
integrate_prebuilt_map_obstacles(planner) ==
    IF ~planner.current_occupancy_map THEN planner
    ELSE [planner EXCEPT !.grid = clear_obstacles(@)]

\* the loop of _update_grid_obstacles from obstacle i on
RECURSIVE stamp(_, _, _)
stamp(grid, obstacles, i) ==
    IF i > Len(obstacles) THEN grid
    ELSE stamp(set_obstacle(grid, obstacles[i].center, obstacles[i].radius),
               obstacles, i + 1)

\* PathPlanner._update_grid_obstacles
update_grid_obstacles(planner) ==
    LET cleared == [planner EXCEPT !.grid = clear_obstacles(@)]
        merged  == integrate_prebuilt_map_obstacles(cleared)
    IN  [merged EXCEPT !.grid = stamp(@, planner.dynamic_obstacles, 1)]

\* the result of a coroutine of the planner: the object, the value returned,
\* whether _plan_path searched, the obstacles it stamped into the grid and
\* the navigation states it assigned
outcome(planner, ret, planned, stamped, states) ==
    [self |-> planner, ret |-> ret, planned |-> planned,
     stamped |-> stamped, states |-> states]

\* _plan_path that leaves the navigation state alone when no path is found
planner_plan_path_silent(planner) ==
    IF planner.current_goal = <<>>
    THEN outcome(planner, FALSE, FALSE, <<>>, <<>>)
    ELSE LET updated == update_grid_obstacles(planner)
             path == plan_path(updated.grid, updated.current_position,
                               updated.current_goal[1],
                               config.max_iterations).path
         IN  IF path # <<>>
             THEN outcome([updated EXCEPT
                              !.current_path = path,
                              !.path_index = 0,
                              !.navigation_state = "following_path"],
                          TRUE, TRUE, planner.dynamic_obstacles,
                          <<"following_path">>)
             ELSE outcome(updated, FALSE, TRUE, planner.dynamic_obstacles,
                          <<>>)

\* PathPlanner._plan_path
planner_plan_path(planner) ==
    IF planner.current_goal = <<>>
    THEN outcome(planner, FALSE, FALSE, <<>>, <<>>)
    ELSE LET updated == update_grid_obstacles(planner)
             path == plan_path(updated.grid, updated.current_position,
                               updated.current_goal[1],
                               config.max_iterations).path
         IN  IF path # <<>>
             THEN outcome([updated EXCEPT
                              !.current_path = path,
                              !.path_index = 0,
                              !.navigation_state = "following_path"],
                          TRUE, TRUE, planner.dynamic_obstacles,
                          <<"following_path">>)
             ELSE outcome([updated EXCEPT !.navigation_state = "failed"],
                          FALSE, TRUE, planner.dynamic_obstacles,
                          <<"failed">>)

\* PathPlanner.set_goal
set_goal(planner, goal) ==
    LET planning == [planner EXCEPT !.current_goal = <<goal>>,
                                    !.navigation_state = "planning"]
        planned  == planner_plan_path(planning)
    IN  [planned EXCEPT !.states = <<"planning">> \o @]

\* _check_path_validity that looks at the whole path, the points already
\* passed included
check_path_validity_whole_path(planner) ==
    IF planner.current_path = <<>>
    THEN outcome(planner, FALSE, FALSE, <<>>, <<>>)
    ELSE IF \E i \in 0..(Len(planner.current_path) - 1) :
               \E j \in DOMAIN planner.dynamic_obstacles :
                  contains_point(planner.dynamic_obstacles[j],
                                 planner.current_path[i + 1])
         THEN planner_plan_path(planner)
         ELSE outcome(planner, FALSE, FALSE, <<>>, <<>>)

\* PathPlanner._check_path_validity
check_path_validity(planner) ==
    IF planner.current_path = <<>>
    THEN outcome(planner, FALSE, FALSE, <<>>, <<>>)
    ELSE IF \E i \in planner.path_index..(Len(planner.current_path) - 1) :
               \E j \in DOMAIN planner.dynamic_obstacles :
                  contains_point(planner.dynamic_obstacles[j],
                                 planner.current_path[i + 1])
         THEN planner_plan_path(planner)
         ELSE outcome(planner, FALSE, FALSE, <<>>, <<>>)

\* the obstacles update_obstacles makes of what the vision reports: an
\* observation without a distance (None or 0) is skipped
RECURSIVE new_obstacles_of(_, _)
new_obstacles_of(planner, vision_obstacles) ==
    IF vision_obstacles = <<>> THEN <<>>
    ELSE LET obs == Head(vision_obstacles)
             rest == new_obstacles_of(planner, Tail(vision_obstacles))
         IN  IF obs.distance = 0 THEN rest
             ELSE <<Obstacle(
                       Point(planner.current_position.x + obs.distance
                               * cos(planner.current_theta + obs.angle),
                             planner.current_position.y + obs.distance
                               * sin(planner.current_theta + obs.angle)),
                       config.obstacle_inflation, now)>> \o rest

\* PathPlanner.update_obstacles
update_obstacles(planner, vision_obstacles) ==
    LET current_time  == now
        new_obstacles == new_obstacles_of(planner, vision_obstacles)
        kept == SelectSeq(planner.dynamic_obstacles,
                          LAMBDA o : ~is_expired(o, current_time))
        extended == [planner EXCEPT !.dynamic_obstacles = kept \o new_obstacles]
    IN  IF new_obstacles # <<>>
           /\ planner.navigation_state = "following_path"
        THEN check_path_validity(extended)
        ELSE outcome(extended, FALSE, FALSE, <<>>, <<>>)

\* PathPlanner.update_map, has_map telling whether the map manager has a
\* current map
update_map(planner, has_map) ==
    LET loaded == [planner EXCEPT !.current_occupancy_map = has_map]
    IN  IF has_map /\ loaded.current_goal # <<>>
           /\ loaded.navigation_state \in {"following_path", "planning"}
        THEN planner_plan_path(loaded)
        ELSE outcome(loaded, FALSE, FALSE, <<>>, <<>>)

\* PathPlanner.update_pose
update_pose(planner, x, y, theta) ==
    [planner EXCEPT !.current_position = Point(x, y),
                    !.current_theta = theta]

\* NavigationCommand(linear_speed, angular_speed, command_type)
NavigationCommand(linear_speed, angular_speed, command_type) ==
    [command_type |-> command_type, linear_speed |-> linear_speed,
     angular_speed |-> angular_speed]

\* max(lo, min(hi, value))
clamp(value, lo, hi) ==
    IF value < lo THEN lo ELSE IF value > hi THEN hi ELSE value

\* PathPlanner._create_navigation_command, for velocities in thousandths:
\* the speeds of the command are thousandths of full speed
create_navigation_command(linear_vel, angular_vel, command_type) ==
    NavigationCommand(
        clamp(linear_vel \div config.max_linear_speed, -1000, 1000),
        clamp(angular_vel \div config.max_angular_speed, -1000, 1000),
        command_type)

\* self.lookahead_distance
lookahead_distance == 2

\* PathPlanner._find_lookahead_point: the object (path_index moves to the
\* point found) and the point
find_lookahead_point(planner) ==
    LET far == {i \in planner.path_index..(Len(planner.current_path) - 1) :
                   distance_squared(planner.current_position,
                                    planner.current_path[i + 1])
                       >= lookahead_distance * lookahead_distance}
    IN  IF far # {}
        THEN [self |-> [planner EXCEPT !.path_index = minimum(far)],
              point |-> planner.current_path[minimum(far) + 1]]
        ELSE [self |-> planner,
              point |-> planner.current_path[Len(planner.current_path)]]

\* PathPlanner._pure_pursuit_control. The target is seen from the robot at
\* (ahead, left); math.atan2(0, 0) is 0, the direction of (1, 0). The
\* angular speed needs atan2 and is kept as the direction of the turn only:
\* 1000, 0 or -1000 for a positive, zero or negative angle_error.
pure_pursuit_control(planner, target) ==
    LET pos   == planner.current_position
        here  == target.x = pos.x /\ target.y = pos.y
        dx    == IF here THEN 1 ELSE target.x - pos.x
        dy    == IF here THEN 0 ELSE target.y - pos.y
        ahead == dx * cos(planner.current_theta)
                    + dy * sin(planner.current_theta)
        left  == dy * cos(planner.current_theta)
                    - dx * sin(planner.current_theta)
        turn  == IF left > 0 THEN 1
                 ELSE IF left < 0 THEN -1
                 ELSE IF ahead > 0 THEN 0
                 ELSE IF planner.current_theta = 0 THEN 1 ELSE -1
        wide  == ~(ahead > 0 /\ abs(left) <= ahead)
        far   == distance_to(pos, target) \div 2
        speed == IF far < 1000 * config.max_linear_speed
                 THEN far ELSE 1000 * config.max_linear_speed
        linear_speed == IF wide THEN speed \div 2 ELSE speed
    IN  create_navigation_command(linear_speed,
                                  turn * 1000 * config.max_angular_speed,
                                  "PURE_PURSUIT")

\* the result of a control tick: the object, the command returned
\* (no_command for None) and the obstacles given to compute_velocity
moved(planner, command, dwa_obstacles) ==
    [self |-> planner, ret |-> command, dwa_obstacles |-> dwa_obstacles]

\* _follow_path that enters AvoidingObstacle when obstacles are tracked
follow_path_avoiding(planner) ==
    IF planner.current_path = <<>>
       \/ planner.path_index >= Len(planner.current_path)
    THEN moved(planner, no_command, <<>>)
    ELSE LET found == find_lookahead_point(planner)
         IN  IF found.self.dynamic_obstacles # <<>>
             THEN LET velocity ==
                         compute_velocity(found.self.current_position,
                                          found.self.current_theta,
                                          found.point,
                                          found.self.dynamic_obstacles)
                  IN  moved([found.self EXCEPT
                                !.navigation_state = "avoiding_obstacle"],
                            create_navigation_command(1000 * velocity[1],
                                                      1000 * velocity[2],
                                                      "AVOID_OBSTACLE"),
                            found.self.dynamic_obstacles)
             ELSE moved(found.self,
                        pure_pursuit_control(found.self, found.point), <<>>)

\* PathPlanner._follow_path
follow_path(planner) ==
    IF planner.current_path = <<>>
       \/ planner.path_index >= Len(planner.current_path)
    THEN moved(planner, no_command, <<>>)
    ELSE LET found == find_lookahead_point(planner)
         IN  IF found.self.dynamic_obstacles # <<>>
             THEN LET velocity ==
                         compute_velocity(found.self.current_position,
                                          found.self.current_theta,
                                          found.point,
                                          found.self.dynamic_obstacles)
                  IN  moved(found.self,
                            create_navigation_command(1000 * velocity[1],
                                                      1000 * velocity[2],
                                                      "FOLLOW_PATH"),
                            found.self.dynamic_obstacles)
             ELSE moved(found.self,
                        pure_pursuit_control(found.self, found.point), <<>>)

\* PathPlanner._avoid_obstacles
avoid_obstacles(planner) ==
    IF planner.dynamic_obstacles = <<>>
    THEN moved([planner EXCEPT !.navigation_state = "following_path"],
               no_command, <<>>)
    ELSE LET goal == IF planner.current_goal # <<>>
                     THEN planner.current_goal[1]
                     ELSE Point(planner.current_position.x
                                    + cos(planner.current_theta),
                                planner.current_position.y
                                    + sin(planner.current_theta))
             velocity == compute_velocity(planner.current_position,
                                          planner.current_theta, goal,
                                          planner.dynamic_obstacles)
         IN  moved(planner,
                   create_navigation_command(1000 * velocity[1],
                                             1000 * velocity[2],
                                             "AVOID_OBSTACLE"),
                   planner.dynamic_obstacles)

\* the goal is set and nearer than goal_tolerance
goal_reached(planner) ==
    /\ planner.current_goal # <<>>
    /\ distance_squared(planner.current_position, planner.current_goal[1])
          < config.goal_tolerance * config.goal_tolerance

\* the sensors are given and report less than emergency_stop_distance;
\* sensor_data is the list of what get_min_distance returns, empty for None
emergency(sensor_data) ==
    /\ sensor_data # <<>>
    /\ sensor_data[1] < config.emergency_stop_distance

\* get_next_move that looks at the sensors before it looks at the goal
get_next_move_sensors_first(planner, sensor_data) ==
    IF planner.navigation_state = "idle"
    THEN moved(planner, no_command, <<>>)
    ELSE IF emergency(sensor_data)
    THEN moved(planner, NavigationCommand(0, 0, "EMERGENCY_STOP"), <<>>)
    ELSE IF goal_reached(planner)
    THEN moved([planner EXCEPT !.navigation_state = "reached_goal"],
               NavigationCommand(0, 0, "STOP"), <<>>)
    ELSE IF planner.navigation_state = "following_path"
    THEN follow_path(planner)
    ELSE IF planner.navigation_state = "avoiding_obstacle"
    THEN avoid_obstacles(planner)
    ELSE moved(planner, no_command, <<>>)

\* PathPlanner.get_next_move
get_next_move(planner, sensor_data) ==
    IF planner.navigation_state = "idle"
    THEN moved(planner, no_command, <<>>)
    ELSE IF goal_reached(planner)
    THEN moved([planner EXCEPT !.navigation_state = "reached_goal"],
               NavigationCommand(0, 0, "STOP"), <<>>)
    ELSE IF emergency(sensor_data)
    THEN moved(planner, NavigationCommand(0, 0, "EMERGENCY_STOP"), <<>>)
    ELSE IF planner.navigation_state = "following_path"
    THEN follow_path(planner)
    ELSE IF planner.navigation_state = "avoiding_obstacle"
    THEN avoid_obstacles(planner)
    ELSE moved(planner, no_command, <<>>)

\* the goals set_goal is called with: a point two units ahead of the
\* robot's first position and a point outside the grid
Goals == {Point(2, 0), Point(config.planning_range + 1, 0)}

\* the poses (x, y, theta) update_pose is called with
Poses == {<<-2, 0, 0>>, <<1, 0, 1>>}

\* what the vision reports to update_obstacles: an obstacle two units
\* ahead, or an observation without a distance
Sightings ==
    {<<[distance |-> 2, angle |-> 0]>>, <<[distance |-> 0, angle |-> 0]>>}

\* what the sensors report to a control tick: nothing, a distance below
\* emergency_stop_distance, a distance above it
SensorReadings == {<<>>, <<1>>, <<5>>}

\* the time that passes between two calls, when any does
TimeStep == 6

\* await path_planner.set_goal(goal)
SetGoal ==
    \E goal \in Goals :
        LET done == set_goal(self, goal)
        IN  /\ becomes(done.self)
            /\ g_nav' = nav_call("set_goal", navigation_state, done.states,
                                 done.ret, no_command, done.planned,
                                 done.stamped, <<>>, 0, FALSE, FALSE)
            /\ UNCHANGED <<now, smvars, busvars, locvars, hwvars, astar_call, dwa_call>>

\* path_planner.update_pose(x, y, theta)
UpdatePose ==
    \E pose \in Poses :
        /\ becomes(update_pose(self, pose[1], pose[2], pose[3]))
        /\ g_nav' = nav_call("update_pose", navigation_state, <<>>, FALSE,
                             no_command, FALSE, <<>>, <<>>, 0, FALSE, FALSE)
        /\ UNCHANGED <<now, smvars, busvars, locvars, hwvars, astar_call, dwa_call>>

\* await path_planner.update_obstacles(vision_obstacles)
UpdateObstacles ==
    \E vision_obstacles \in Sightings :
        LET done == update_obstacles(self, vision_obstacles)
        IN  /\ Len(done.self.dynamic_obstacles) <= MaxTracked
            /\ becomes(done.self)
            /\ g_nav' = nav_call("update_obstacles", navigation_state,
                                 done.states, FALSE, no_command,
                                 done.planned, done.stamped, <<>>,
                                 Len(new_obstacles_of(self, vision_obstacles)),
                                 FALSE, FALSE)
            /\ UNCHANGED <<now, smvars, busvars, locvars, hwvars, astar_call, dwa_call>>

\* await path_planner.update_map()
UpdateMap ==
    \E has_map \in BOOLEAN :
        LET done == update_map(self, has_map)
        IN  /\ becomes(done.self)
            /\ g_nav' = nav_call("update_map", navigation_state, done.states,
                                 FALSE, no_command, done.planned,
                                 done.stamped, <<>>, 0, FALSE, FALSE)
            /\ UNCHANGED <<now, smvars, busvars, locvars, hwvars, astar_call, dwa_call>>

\* await path_planner.get_next_move(sensor_data, vision_data): one control
\* tick
GetNextMove ==
    \E sensor_data \in SensorReadings :
        LET done == get_next_move(self, sensor_data)
        IN  /\ becomes(done.self)
            /\ g_nav' = nav_call("get_next_move", navigation_state,
                                 IF done.self.navigation_state
                                        = navigation_state
                                 THEN <<>>
                                 ELSE <<done.self.navigation_state>>,
                                 FALSE, done.ret, FALSE, <<>>,
                                 done.dwa_obstacles, 0,
                                 emergency(sensor_data), goal_reached(self))
            /\ UNCHANGED <<now, smvars, busvars, locvars, hwvars, astar_call, dwa_call>>

\* time passes
Elapse ==
    /\ now + TimeStep <= MaxTime
    /\ now' = now + TimeStep
    /\ UNCHANGED <<navigation_state, current_goal, current_position,
                   current_theta, current_path, path_index,
                   dynamic_obstacles, grid_data, current_occupancy_map,
                   g_nav, smvars, busvars, locvars, hwvars, astar_call, dwa_call>>

PlannerNext ==
    \/ SetGoal
    \/ UpdatePose
    \/ UpdateObstacles
    \/ UpdateMap
    \/ GetNextMove
    \/ Elapse

PlannerSpec == Init /\ [][PlannerNext]_vars

----------------------------------------------------------------------------
(* Claims about the PathPlanner (PlannerSpec) *)

\* the last call made on the planner was op
LastCall(op) == g_nav.op = op

\* the path A* finds on the grid as it stands, from the current position to
\* the current goal
path_on_grid ==
    plan_path(self.grid, current_position, current_goal[1],
              config.max_iterations).path

\* C11: set_goal sets the state to Planning and runs the search; it ends in
\* FollowingPath, returning true with the non-empty path A* found and
\* path_index 0, when A* finds a path, and in Failed, returning false, when
\* it does not. No other navigation state is the result of set_goal.
C11_SetGoalPlansOrFails ==
    LastCall("set_goal") =>
        /\ g_nav.planned
        /\ g_nav.states = <<"planning", navigation_state>>
        /\ navigation_state \in {"following_path", "failed"}
        /\ path_on_grid # <<>> =>
              /\ navigation_state = "following_path"
              /\ g_nav.ok
              /\ current_path = path_on_grid
              /\ path_index = 0
        /\ path_on_grid = <<>> =>
              /\ navigation_state = "failed"
              /\ ~g_nav.ok

\* set_goal found a path around a tracked obstacle after an earlier failure
C11_Witness ==
    /\ LastCall("set_goal")
    /\ g_nav.state_before = "failed"
    /\ g_nav.ok
    /\ dynamic_obstacles # <<>>
    /\ Len(current_path) >= 3

\* the step is a call on the planner (not the passing of time), which g_nav'
\* then describes
PlannerCall == now' = now

\* C12: a control tick whose sensor data reports a minimum distance below
\* emergency_stop_distance returns a stop command of zero speed (an
\* emergency stop, or a stop when the goal is reached), whatever the
\* navigation state, the path and the obstacles are: never a motion command
\* and never no command.
C12_EmergencyAlwaysStops ==
    (LastCall("get_next_move") /\ g_nav.emergency) =>
        /\ g_nav.command.command_type \in {"EMERGENCY_STOP", "STOP"}
        /\ g_nav.command.linear_speed = 0
        /\ g_nav.command.angular_speed = 0
        /\ g_nav.command.command_type = "STOP" => g_nav.within

\* C13: a control tick with a goal set and the position nearer than
\* goal_tolerance puts the planner in ReachedGoal and returns a stop command
\* of linear and angular speed 0; and the planner enters ReachedGoal only on
\* such a tick.
C13_ReachedGoalWithinTolerance ==
    [][/\ (PlannerCall /\ g_nav'.op = "get_next_move" /\ g_nav'.within) =>
              /\ navigation_state' = "reached_goal"
              /\ g_nav'.command = NavigationCommand(0, 0, "STOP")
       /\ (navigation_state # "reached_goal"
             /\ navigation_state' = "reached_goal") =>
              /\ g_nav'.op = "get_next_move"
              /\ g_nav'.within
              /\ distance_to(current_position', current_goal'[1])
                    < 1000 * config.goal_tolerance]_vars

\* a tick found the robot at the goal while the sensors reported an obstacle
\* nearer than emergency_stop_distance
C13_Witness ==
    /\ LastCall("get_next_move")
    /\ g_nav.within
    /\ g_nav.emergency
    /\ g_nav.state_before = "following_path"
    /\ navigation_state = "reached_goal"

\* C14: an obstacle older than max_age is left out of planning (the
\* obstacles stamped into the grid) and of the collision checks (the
\* obstacles given to compute_velocity) of every later call, even when no
\* new observation arrived.
C14_ExpiredObstaclesExcluded ==
    [][PlannerCall =>
          /\ \A i \in DOMAIN g_nav'.stamped :
                ~is_expired(g_nav'.stamped[i], now)
          /\ \A i \in DOMAIN g_nav'.dwa_obstacles :
                ~is_expired(g_nav'.dwa_obstacles[i], now)]_vars

\* C15: from Failed, a call plans again when, and only when, it sets a goal
\* or brings new obstacles.
C15_FailedRetriesOnGoalOrObstacles ==
    [][(PlannerCall /\ navigation_state = "failed") =>
          (g_nav'.planned <=>
              \/ g_nav'.op = "set_goal"
              \/ g_nav'.op = "update_obstacles" /\ g_nav'.new_obstacles > 0)
      ]_vars

----------------------------------------------------------------------------
(* Claims about DynamicWindowApproach (DWASpec) *)

\* the compute_velocity call has returned
VelocityReturned == dwa_call.pc = "returned"

\* the points the robot of the call passes with the velocity pair s
rollout(s) ==
    predict_trajectory(dwa_call.pos, dwa_call.theta, s[1], s[2])

\* no point of the rollout of s lies inside an obstacle of the call
collision_free(s) ==
    \A i \in DOMAIN rollout(s) : \A j \in DOMAIN dwa_call.obstacles :
        distance_squared(dwa_call.obstacles[j].center, rollout(s)[i])
            > dwa_call.obstacles[j].radius * dwa_call.obstacles[j].radius

\* the sampled velocity pairs
Samples == {velocity_samples[k] : k \in DOMAIN velocity_samples}

\* the score of the velocity pair s in the call
score_of(s) ==
    evaluate_trajectory(rollout(s), dwa_call.goal, dwa_call.obstacles,
                        s[1], s[2])

\* C16: when at least one sampled velocity pair is collision-free,
\* compute_velocity returns a sampled pair whose rollout has no point inside
\* an obstacle and whose score is the largest of the collision-free samples
C16_ReturnsBestSafeVelocity ==
    (VelocityReturned /\ \E s \in Samples : collision_free(s)) =>
        /\ dwa_call.result \in Samples
        /\ collision_free(dwa_call.result)
        /\ \A s \in Samples :
              collision_free(s) => score_of(s) <= score_of(dwa_call.result)

\* a call with obstacles in which some samples collide and the pair returned
\* moves the robot
C16_Witness ==
    /\ VelocityReturned
    /\ dwa_call.obstacles # <<>>
    /\ \E s \in Samples : ~collision_free(s)
    /\ \E s \in Samples : collision_free(s) /\ s # dwa_call.result
    /\ dwa_call.result[1] > 0

\* C17: when every sampled trajectory collides, compute_velocity returns a
\* result that differs from the deliberate stop (v = 0, w = 0)
C17_NoSafeVelocityIsExplicit ==
    (VelocityReturned /\ \A s \in Samples : ~collision_free(s)) =>
        dwa_call.result # <<0, 0>>

----------------------------------------------------------------------------
(* Claims about AStarPlanner (AStarSpec) *)

\* the plan_path call has returned
Returned == astar_call.pc = "returned"

\* the grid, the start cell and the goal cell of the call
called_grid == [empty_grid EXCEPT !.data = astar_call.data]
start_cell  == world_to_grid(called_grid, astar_call.start)
goal_cell   == world_to_grid(called_grid, astar_call.goal)

\* the cell is inside the grid and not occupied
free_cell(c) ==
    /\ c[1] \in 0..(called_grid.grid_width - 1)
    /\ c[2] \in 0..(called_grid.grid_height - 1)
    /\ c \notin astar_call.data

\* two different cells that touch by a side or by a corner
adjacent(a, b) ==
    /\ a # b
    /\ a[1] - b[1] \in {-1, 0, 1}
    /\ a[2] - b[2] \in {-1, 0, 1}

\* the cells of the returned path
path_cells ==
    [i \in 1..Len(astar_call.path) |->
        world_to_grid(called_grid, astar_call.path[i])]

\* the free cells joined to the cells of `seen` by a chain of free cells
RECURSIVE flood(_)
flood(seen) ==
    LET more == {c \in cells_of(called_grid) \ seen :
                    free_cell(c) /\ \E s \in seen : adjacent(s, c)}
    IN  IF more = {} THEN seen ELSE flood(seen \cup more)

\* the number of pops the search of the call needs without a budget
unbounded_pops ==
    plan_path(called_grid, astar_call.start, astar_call.goal,
              config.max_iterations).iterations

\* C18: plan_path returns the empty path when the start cell or the goal
\* cell is occupied or outside the grid, and when max_iterations pops do not
\* reach the goal cell; it never pops the open set more than max_iterations
\* times
C18_EmptyWhenBlockedOrOverBudget ==
    Returned =>
        /\ (~free_cell(start_cell) \/ ~free_cell(goal_cell))
              => astar_call.path = <<>>
        /\ astar_call.iterations <= astar_call.max_iterations
        /\ unbounded_pops > astar_call.max_iterations
              => astar_call.path = <<>>

\* a call between two free cells that a larger budget would have joined
\* came back empty because the budget was used up
C18_Witness ==
    /\ Returned
    /\ free_cell(start_cell) /\ free_cell(goal_cell)
    /\ goal_cell \in flood({start_cell})
    /\ astar_call.iterations = astar_call.max_iterations
    /\ astar_call.path = <<>>

\* C19: every non-empty path plan_path returns starts at the start cell,
\* ends at the goal cell, steps between 8-adjacent cells and holds no
\* occupied cell; when no chain of free cells joins start and goal the
\* result is empty
C19_PathIsValid ==
    Returned =>
        /\ astar_call.path # <<>> =>
              /\ path_cells[1] = start_cell
              /\ path_cells[Len(path_cells)] = goal_cell
              /\ \A i \in 1..(Len(path_cells) - 1) :
                    adjacent(path_cells[i], path_cells[i + 1])
              /\ \A i \in 1..Len(path_cells) : free_cell(path_cells[i])
              /\ \A i \in 1..Len(path_cells) :
                    astar_call.path[i] =
                        grid_to_world(called_grid, path_cells[i][1],
                                      path_cells[i][2])
        /\ (free_cell(start_cell) /\ goal_cell \notin flood({start_cell}))
              => astar_call.path = <<>>

\* the number of steps between two cells on a grid without obstacles
steps_apart(a, b) ==
    IF abs(a[1] - b[1]) > abs(a[2] - b[2]) THEN abs(a[1] - b[1])
    ELSE abs(a[2] - b[2])

\* a path that goes around occupied cells: it has more steps than the
\* start and the goal are apart
C19_Witness ==
    /\ Returned
    /\ astar_call.path # <<>>
    /\ Len(path_cells) - 1 > steps_apart(start_cell, goal_cell)

\* the cost of a step between two adjacent cells, in thousandths: 1 along
\* an axis, sqrt(2) along a diagonal
step_cost(a, b) ==
    IF a[1] # b[1] /\ a[2] # b[2] THEN sqrt(2) ELSE sqrt(1)

\* the cost of a list of cells
RECURSIVE cost_of(_)
cost_of(cells) ==
    IF Len(cells) <= 1 THEN 0
    ELSE step_cost(cells[1], cells[2]) + cost_of(Tail(cells))

\* the least cost of a chain of cells of `free` from the cells of
\* DOMAIN dist to the cell `target`, or -1 when there is none (Dijkstra's
\* algorithm: `done` are the settled cells)
RECURSIVE least_cost(_, _, _, _)
least_cost(free, target, done, dist) ==
    LET frontier == DOMAIN dist \ done
    IN  IF frontier = {} THEN -1
        ELSE LET u    == CHOOSE c \in frontier :
                            \A d \in frontier : dist[c] <= dist[d]
                 near == {c \in free \ done :
                            /\ adjacent(u, c)
                            /\ \/ c \notin DOMAIN dist
                               \/ dist[u] + step_cost(u, c) < dist[c]}
             IN  IF u = target THEN dist[u]
                 ELSE least_cost(free, target, done \cup {u},
                        [c \in near |-> dist[u] + step_cost(u, c)] @@ dist)

\* the least cost of a chain of free cells from the start cell to the goal
\* cell of the call
optimum ==
    least_cost({c \in cells_of(called_grid) : free_cell(c)}, goal_cell, {},
               (start_cell :> 0))

\* plan_path on an empty grid of 6 by 6 cells, from cell (0,0) to cell (5,5)
diagonal_call ==
    LET grid == Grid(12, 12, 2)
    IN  plan_path(grid, grid_to_world(grid, 0, 0), grid_to_world(grid, 5, 5),
                  config.max_iterations).path

\* C20: a non-empty path returned by plan_path has the least cost (1 per
\* axis-aligned step, sqrt(2) per diagonal step) of all chains of free cells
\* from the start cell to the goal cell; on an empty grid the path from
\* (0,0) to (5,5) is the straight diagonal
C20_PathIsOptimal ==
    /\ (Returned /\ astar_call.path # <<>>) =>
          cost_of(path_cells) = optimum
    /\ diagonal_call =
          [i \in 1..6 |-> grid_to_world(Grid(12, 12, 2), i - 1, i - 1)]

\* a returned path that had to choose: it goes around occupied cells with
\* axis-aligned and with diagonal steps
C20_Witness ==
    /\ Returned
    /\ astar_call.path # <<>>
    /\ astar_call.data # {}
    /\ \E i, j \in 1..(Len(path_cells) - 1) :
          /\ step_cost(path_cells[i], path_cells[i + 1]) = sqrt(2)
          /\ step_cost(path_cells[j], path_cells[j + 1]) = sqrt(1)
    /\ Len(path_cells) - 1 > steps_apart(start_cell, goal_cell)

-----------------------------------------------------------------------------
(***************************************************************************)
(* localization/encoder_reader.py: EncoderReader.  The pulse callbacks run *)
(* in the GPIO callback thread, get_incremental_data in the caller's       *)
(* thread; both work on the counters inside "with self._lock".  Each       *)
(* thread's position is part of the state, one step per statement group.   *)
(***************************************************************************)

\* threading.Lock.acquire (entering "with self._lock"): possible only while
\* no thread holds the lock
can_acquire_unlocked(er) == TRUE
can_acquire(er) == er.lock = "free"

\* self._left_pulse_count / self._right_pulse_count
pulse_count(er, wheel) ==
    IF wheel = "left" THEN er.left_pulse_count ELSE er.right_pulse_count

\* the body of _left_encoder_callback / _right_encoder_callback inside the
\* lock: the wheel's counter goes up by one
encoder_callback(er, wheel) ==
    IF wheel = "left"
    THEN [er EXCEPT !.left_pulse_count = @ + 1]
    ELSE [er EXCEPT !.right_pulse_count = @ + 1]

\* get_incremental_data, first half of the locked block: the deltas and dt
incremental_deltas(er, current_time) ==
    [left_delta  |-> er.left_pulse_count - er.last_left_pulses,
     right_delta |-> er.right_pulse_count - er.last_right_pulses,
     dt          |-> current_time - er.last_update_time]

\* get_incremental_data, second half of the locked block: the last-read
\* values become the counters' present values
incremental_update(er, current_time) ==
    [er EXCEPT !.last_left_pulses = er.left_pulse_count,
               !.last_right_pulses = er.right_pulse_count,
               !.last_update_time = current_time]

\* get_incremental_data as one call with nothing running in between
get_incremental_data(er, current_time) ==
    LET ret == incremental_deltas(er, current_time)
    IN  [self |-> [incremental_update(er, current_time) EXCEPT
                      !.g_reported =
                          [left  |-> @.left + ret.left_delta,
                           right |-> @.right + ret.right_delta]],
         ret  |-> ret]

\* reset_counters: the locked block
reset_counters(er, current_time) ==
    [er EXCEPT !.left_pulse_count = 0, !.right_pulse_count = 0,
               !.last_left_pulses = 0, !.last_right_pulses = 0,
               !.last_update_time = current_time,
               !.g_reported = [left |-> 0, right |-> 0]]

\* everything but the EncoderReader and the clock
EncoderFrame ==
    UNCHANGED <<smvars, busvars, navigation_state, current_goal,
                current_position, current_theta, current_path, path_index,
                dynamic_obstacles, grid_data, current_occupancy_map, g_nav,
                astar_call, dwa_call, odometry, sensor_fusion, hwvars>>

\* a wheel's encoder raises an edge: the GPIO thread calls the callback
Pulse ==
    \E wheel \in {"left", "right"} :
        /\ encoder_reader.callback.pc = "idle"
        /\ pulse_count(encoder_reader, wheel) < MaxPulses
        /\ encoder_reader' =
              [encoder_reader EXCEPT
                  !.callback = [pc |-> "entering", wheel |-> wheel]]
        /\ UNCHANGED now
        /\ EncoderFrame

\* the callback enters "with self._lock"
CallbackLock ==
    /\ encoder_reader.callback.pc = "entering"
    /\ can_acquire(encoder_reader)
    /\ encoder_reader' =
          [encoder_reader EXCEPT !.lock = "callback",
                                 !.callback.pc = "locked"]
    /\ UNCHANGED now
    /\ EncoderFrame

\* the callback counts the pulse and leaves the locked block
CallbackCount ==
    /\ encoder_reader.callback.pc = "locked"
    /\ encoder_reader' =
          [encoder_callback(encoder_reader, encoder_reader.callback.wheel)
              EXCEPT !.lock = "free", !.callback.pc = "idle"]
    /\ UNCHANGED now
    /\ EncoderFrame

\* a thread calls get_incremental_data
ReadCall ==
    /\ encoder_reader.reader.pc = "idle"
    /\ encoder_reader' = [encoder_reader EXCEPT !.reader.pc = "entering"]
    /\ UNCHANGED now
    /\ EncoderFrame

\* the reader enters "with self._lock"
ReaderLock ==
    /\ encoder_reader.reader.pc = "entering"
    /\ can_acquire(encoder_reader)
    /\ encoder_reader' =
          [encoder_reader EXCEPT !.lock = "reader", !.reader.pc = "locked"]
    /\ UNCHANGED now
    /\ EncoderFrame

\* the reader computes the deltas and dt
ReaderDeltas ==
    /\ encoder_reader.reader.pc = "locked"
    /\ LET d == incremental_deltas(encoder_reader, now)
       IN  encoder_reader' =
              [encoder_reader EXCEPT
                  !.reader = [pc |-> "computed", left_delta |-> d.left_delta,
                              right_delta |-> d.right_delta, dt |-> d.dt]]
    /\ UNCHANGED now
    /\ EncoderFrame

\* the reader stores the last-read values, leaves the locked block and
\* returns the deltas
ReaderUpdate ==
    /\ encoder_reader.reader.pc = "computed"
    /\ encoder_reader' =
          [incremental_update(encoder_reader, now) EXCEPT
              !.lock = "free",
              !.reader.pc = "idle",
              !.g_reported =
                  [left  |-> @.left + encoder_reader.reader.left_delta,
                   right |-> @.right + encoder_reader.reader.right_delta]]
    /\ UNCHANGED now
    /\ EncoderFrame

\* reset_counters, called between two reads
ResetCounters ==
    /\ encoder_reader.reader.pc = "idle"
    /\ can_acquire(encoder_reader)
    /\ encoder_reader' = reset_counters(encoder_reader, now)
    /\ UNCHANGED now
    /\ EncoderFrame

EncoderNext ==
    \/ Pulse
    \/ CallbackLock
    \/ CallbackCount
    \/ ReadCall
    \/ ReaderLock
    \/ ReaderDeltas
    \/ ReaderUpdate
    \/ ResetCounters
    \/ Elapse

EncoderSpec == Init /\ [][EncoderNext]_vars

(***************************************************************************)
(* Claims about the EncoderReader (EncoderSpec)                            *)
(***************************************************************************)

\* a step that is not a reset of the counters
NoReset ==
    \/ encoder_reader'.left_pulse_count # 0
    \/ encoder_reader'.right_pulse_count # 0
    \/ encoder_reader.left_pulse_count + encoder_reader.right_pulse_count = 0

\* whenever no read is between computing its deltas and storing the
\* last-read values, the deltas returned for a wheel since the last reset
\* add up to the wheel's pulse counter at the last read
ReportedSumsMatch ==
    /\ encoder_reader.reader.pc # "computed" =>
          /\ encoder_reader.g_reported.left = encoder_reader.last_left_pulses
          /\ encoder_reader.g_reported.right = encoder_reader.last_right_pulses
    /\ encoder_reader.last_left_pulses <= encoder_reader.left_pulse_count
    /\ encoder_reader.last_right_pulses <= encoder_reader.right_pulse_count

\* a step after which neither pulse counter is smaller than before
CountersKept ==
    /\ encoder_reader'.left_pulse_count >= encoder_reader.left_pulse_count
    /\ encoder_reader'.right_pulse_count >= encoder_reader.right_pulse_count

\* C22: under every interleaving of the pulse callbacks with
\* get_incremental_data, the deltas returned for a wheel add up to the
\* wheel's pulse counter at the last read (every counted pulse is reported
\* in exactly one delta), and a pulse counter never decreases except by a
\* reset
C22_EveryPulseReportedOnce ==
    []ReportedSumsMatch /\ [][NoReset => CountersKept]_vars

\* a read is about to return a delta of more than one pulse while a pulse
\* callback waits at the lock, after an earlier read has reported pulses
C22_Witness ==
    /\ encoder_reader.reader.pc = "computed"
    /\ encoder_reader.reader.left_delta + encoder_reader.reader.right_delta > 1
    /\ encoder_reader.callback.pc = "entering"
    /\ encoder_reader.g_reported.left + encoder_reader.g_reported.right > 0

-----------------------------------------------------------------------------
(***************************************************************************)
(* localization/odometry.py: Odometry on top of the EncoderReader.         *)
(* The EncoderConfig of the model makes one pulse 1 unit of wheel travel   *)
(* and one pulse of difference between the wheels a quarter turn           *)
(* (wheel_base = 2/pi units), so that headings stay multiples of pi/2 and  *)
(* their sines and cosines are exact.  Lengths are in thousandths of the   *)
(* unit, angles in quarter turns.                                          *)
(***************************************************************************)

\* EncoderConfig: pulses per revolution and the wheel's circumference
\* 2 * 3.14159 * wheel_radius in thousandths
encoder_config == [pulses_per_revolution |-> 20, wheel_circumference |-> 20000]

\* the difference of wheel travel that turns the robot by a quarter turn:
\* wheel_base * pi / 2, in thousandths
quarter_turn_travel == 1000

\* pulses_to_distance(pulses)
pulses_to_distance(pulses) ==
    int_div(pulses * encoder_config.wheel_circumference,
            encoder_config.pulses_per_revolution)

\* radius = center_distance / delta_theta, delta_theta # 0 in quarter
\* turns, with pi/2 taken as 355/226
arc_radius(center_distance, delta_theta) ==
    IF delta_theta > 0
    THEN int_div(center_distance * 226, delta_theta * 355)
    ELSE -int_div(center_distance * 226, (-delta_theta) * 355)

\* abs(delta_theta) in thousandths of a radian
radians(delta_theta) == int_div(abs(delta_theta) * 355 * 1000, 226)

\* the body of _update_pose_with_kinematics from "update the cumulative
\* distance" on, given center_distance and delta_theta; current_time is
\* its time.time()
kinematics(od, center_distance, delta_theta, current_time) ==
    LET pose   == od.current_pose
        radius == arc_radius(center_distance, delta_theta)
        dx == IF delta_theta = 0
              THEN center_distance * cos(pose.theta)
              ELSE radius * (sin(pose.theta + delta_theta) - sin(pose.theta))
        dy == IF delta_theta = 0
              THEN center_distance * sin(pose.theta)
              ELSE radius * (cos(pose.theta) - cos(pose.theta + delta_theta))
    IN  [od EXCEPT
            !.total_distance = @ + abs(center_distance),
            !.current_pose =
                [x |-> pose.x + dx, y |-> pose.y + dy,
                 theta |-> normalize_angle(pose.theta + delta_theta)],
            !.pose_timestamp = current_time,
            !.position_variance =
                @ + abs(center_distance)
                  + int_div(radians(delta_theta), 10),
            !.angle_variance =
                @ + radians(delta_theta)
                  + int_div(abs(center_distance), 10)]

\* _update_pose_with_kinematics with the sum of the wheel distances taken
\* for the distance of the centre
update_pose_with_kinematics_undivided(od, left_distance, right_distance, current_time) ==
    kinematics(od, left_distance + right_distance,
               int_div(right_distance - left_distance, quarter_turn_travel),
               current_time)

\* _update_pose_with_kinematics(left_distance, right_distance, dt)
update_pose_with_kinematics(od, left_distance, right_distance, current_time) ==
    kinematics(od, int_div(left_distance + right_distance, 2),
               int_div(right_distance - left_distance, quarter_turn_travel),
               current_time)

\* get_confidence(), in millionths
max_of(a, b) == IF a > b THEN a ELSE b

min_of(a, b) == IF a < b THEN a ELSE b

get_confidence(od) ==
    min_of(max_of(0, 1000000 - od.position_variance),
           max_of(0, 1000000 - od.angle_variance))

\* set_pose(x, y, theta)
set_pose(od, x, y, theta) ==
    [od EXCEPT !.current_pose = [x |-> x, y |-> y,
                                 theta |-> normalize_angle(theta)]]

\* reset_pose(pose): the Odometry's part; pose is <<>> for None or <<p>>
\* for a Pose2D p made at current_time, as is the Pose2D() that stands in
\* for None
reset_pose(od, pose, current_time) ==
    [od EXCEPT
        !.current_pose = IF pose = <<>> THEN Pose2D(0, 0, 0) ELSE pose[1],
        !.pose_timestamp = current_time,
        !.position_variance = 1000,
        !.angle_variance = 1000,
        !.total_distance = 0]

\* the angles set_pose and Pose2D are called with
Angles == {-2, 1, 7}

\* everything but the Odometry, its EncoderReader, the clock and the event
\* queue
OdometryFrame ==
    UNCHANGED <<smvars, subscribers, weak_subscribers, collected,
                event_history, is_running, processor_task, g_handled,
                g_last_dispatched, g_unsubscribed, navigation_state,
                current_goal, current_position, current_theta, current_path,
                path_index, dynamic_obstacles, grid_data,
                current_occupancy_map, g_nav, astar_call, dwa_call,
                sensor_fusion, hwvars>>

\* await odometry.update(): the increments are read; with dt <= 0 nothing
\* else happens, otherwise the pose is updated and the pose event published
Update ==
    /\ encoder_reader.reader.pc = "idle"
    /\ can_acquire(encoder_reader)
    /\ LET read   == get_incremental_data(encoder_reader, now)
           deltas == read.ret
       IN  /\ encoder_reader' = read.self
           /\ IF deltas.dt <= 0
              THEN /\ odometry' = [odometry EXCEPT !.g_op = "update"]
                   /\ UNCHANGED <<event_queue, stats, g_created>>
              ELSE /\ odometry' =
                         [update_pose_with_kinematics(odometry,
                              pulses_to_distance(deltas.left_delta),
                              pulses_to_distance(deltas.right_delta), now)
                          EXCEPT !.g_op = "update"]
                   /\ publish("navigation", 1)
    /\ UNCHANGED now
    /\ OdometryFrame

\* odometry.set_pose(x, y, theta)
SetPose ==
    \E theta \in Angles :
        /\ odometry' =
              [set_pose(odometry, 0, 0, theta) EXCEPT !.g_op = "set_pose"]
        /\ UNCHANGED <<encoder_reader, now, event_queue, stats, g_created>>
        /\ OdometryFrame

\* odometry.reset_pose(pose): the pose is replaced, the encoder counters
\* are reset
ResetPose ==
    \E pose \in {<<>>} \cup {<<Pose2D(0, 0, theta)>> : theta \in Angles} :
        /\ encoder_reader.reader.pc = "idle"
        /\ can_acquire(encoder_reader)
        /\ odometry' =
              [reset_pose(odometry, pose, now) EXCEPT !.g_op = "reset_pose"]
        /\ encoder_reader' = reset_counters(encoder_reader, now)
        /\ UNCHANGED <<now, event_queue, stats, g_created>>
        /\ OdometryFrame

\* the time between two runs of the odometry loop
update_interval == 3

\* time.time() advances
Tick ==
    /\ now + update_interval <= MaxTime
    /\ now' = now + update_interval
    /\ UNCHANGED <<encoder_reader, odometry, event_queue, stats, g_created>>
    /\ OdometryFrame

OdometryNext ==
    \/ Pulse
    \/ CallbackLock
    \/ CallbackCount
    \/ Update
    \/ SetPose
    \/ ResetPose
    \/ Tick

OdometrySpec == Init /\ [][OdometryNext]_vars

(***************************************************************************)
(* Claims about the Odometry (OdometrySpec)                                *)
(***************************************************************************)

\* C21: the heading of every pose the Odometry holds after update,
\* reset_pose or set_pose lies in the half-open interval (-pi, pi]
C21_ThetaHalfOpen ==
    /\ -pi < odometry.current_pose.theta
    /\ odometry.current_pose.theta <= pi

\* a step of update() that found dt > 0
UpdateStep ==
    /\ odometry'.g_op = "update"
    /\ encoder_reader'.last_update_time # encoder_reader.last_update_time

\* the pulse deltas the next read returns
left_delta == encoder_reader.left_pulse_count - encoder_reader.last_left_pulses

right_delta ==
    encoder_reader.right_pulse_count - encoder_reader.last_right_pulses

\* C28: an update with equal left and right pulse deltas d leaves theta
\* unchanged, moves the position by pulses_to_distance(d) along the prior
\* heading and adds |dist| to the cumulative distance
C28_StraightLine ==
    [][(UpdateStep /\ left_delta = right_delta) =>
          LET dist == pulses_to_distance(left_delta)
              pose == odometry.current_pose
          IN  /\ odometry'.current_pose.theta = pose.theta
              /\ odometry'.current_pose.x = pose.x + dist * cos(pose.theta)
              /\ odometry'.current_pose.y = pose.y + dist * sin(pose.theta)
              /\ odometry'.total_distance =
                    odometry.total_distance + abs(dist)]_vars

\* after set_pose to a heading of a quarter turn, an update with two pulses
\* on each wheel has moved the robot two units along y
C28_Witness ==
    /\ odometry.g_op = "update"
    /\ encoder_reader.last_left_pulses = 2
    /\ encoder_reader.last_right_pulses = 2
    /\ odometry.current_pose = [x |-> 0, y |-> 2000, theta |-> 1]
    /\ odometry.total_distance = 2000

-----------------------------------------------------------------------------
(***************************************************************************)
(* localization/sensor_fusion.py: SensorFusion and its                     *)
(* ExtendedKalmanFilter.  Times are in seconds.                            *)
(***************************************************************************)

\* self._imu_data_timeout
imu_data_timeout == 1

\* the steps of a tick that can raise: np.linalg.inv raises LinAlgError on a
\* singular innovation covariance, the array arithmetic raises TypeError on
\* a reading with a missing field
Raises == {"none", "update_odometry", "update_imu"}

\* ExtendedKalmanFilter.predict, update_odometry, update_imu: state and P
\* are replaced by the step's result
ekf_step(ekf, step) == [ekf EXCEPT !.state = Append(@, step)]

\* _check_sensor_health with the pose's age left out of the odometry test
check_sensor_health_confidence_only(sf, od, current_time) ==
    [sf EXCEPT
        !.odometry_healthy = get_confidence(od) > 500000,
        !.imu_healthy =
            IF sf.imu_data # <<>>
            THEN current_time - sf.imu_data[1].timestamp <= imu_data_timeout
            ELSE FALSE]

\* _check_sensor_health
check_sensor_health(sf, od, current_time) ==
    [sf EXCEPT
        !.odometry_healthy =
            /\ get_confidence(od) > 500000
            /\ current_time - od.pose_timestamp <= 1,
        !.imu_healthy =
            IF sf.imu_data # <<>>
            THEN current_time - sf.imu_data[1].timestamp <= imu_data_timeout
            ELSE FALSE]

\* what one tick found, kept in g_tick
tick_record(sf, od, current_time) ==
    [dt |-> current_time - sf.ekf.last_update_time,
     state_before |-> sf.ekf.state, steps |-> <<>>, raised |-> "none",
     propagated |-> FALSE,
     confidence |-> get_confidence(od),
     pose_age |-> current_time - od.pose_timestamp,
     imu_age |-> IF sf.imu_data = <<>> THEN -1
                 ELSE current_time - sf.imu_data[1].timestamp]

\* a step of the tick has been applied to the filter
applied(sf, step) ==
    [sf EXCEPT !.ekf = ekf_step(@, step),
               !.g_tick.steps = Append(@, step)]

\* SensorFusion.update, from the odometry update to the end of the try
\* block, with the except branch; raises names the step that raises on this
\* tick, if it is reached.  The result says whether the event was published
fusion_update_steps(sf, current_time, raises) ==
    LET try_odometry == sf.odometry_healthy
        odometry_raised == try_odometry /\ raises = "update_odometry"
        sf1 == IF try_odometry /\ ~odometry_raised
               THEN applied(sf, "update_odometry") ELSE sf
        try_imu ==
            /\ sf1.imu_healthy
            /\ sf1.imu_data # <<>>
            /\ current_time - sf1.imu_data[1].timestamp <= imu_data_timeout
        imu_raised == try_imu /\ raises = "update_imu"
        sf2 == IF try_imu /\ ~imu_raised
               THEN applied(sf1, "update_imu") ELSE sf1
    IN  IF odometry_raised
        THEN [self |-> [sf EXCEPT !.g_tick.raised = "update_odometry"],
              published |-> FALSE]
        ELSE IF imu_raised
        THEN [self |-> [sf1 EXCEPT !.g_tick.raised = "update_imu"],
              published |-> FALSE]
        ELSE [self |-> [sf2 EXCEPT !.fused_pose = sf2.ekf.state,
                                   !.ekf.last_update_time = current_time],
              published |-> TRUE]

\* SensorFusion.update
fusion_update(sf, od, current_time, raises) ==
    LET dt     == current_time - sf.ekf.last_update_time
        called == [sf EXCEPT !.g_tick = tick_record(sf, od, current_time),
                             !.g_ticks = @ + 1]
    IN  IF dt <= 0
        THEN [self |-> called, published |-> FALSE]
        ELSE fusion_update_steps(
                 check_sensor_health(applied(called, "predict"), od,
                                     current_time),
                 current_time, raises)

\* reset_fusion(pose): state and P are set anew
reset_fusion(sf) == [sf EXCEPT !.ekf.state = <<>>]

\* the age of the readings update_imu_data is called with
ReadingAges == {0, 1, 2}

\* everything but the SensorFusion and the event queue
FusionFrame ==
    UNCHANGED <<smvars, subscribers, weak_subscribers, collected,
                event_history, is_running, processor_task, g_handled,
                g_last_dispatched, g_unsubscribed, navvars, encoder_reader,
                odometry, hwvars>>

\* await sensor_fusion.update()
FusionUpdate ==
    \E raises \in Raises :
        LET result == fusion_update(sensor_fusion, odometry, now, raises)
        IN  /\ sensor_fusion.g_ticks < MaxTicks
            /\ sensor_fusion' = result.self
            /\ IF result.published
               THEN publish("navigation", 0)
               ELSE UNCHANGED <<event_queue, stats, g_created>>
            /\ FusionFrame

\* update_imu_data(imu_data)
UpdateImuData ==
    \E age \in ReadingAges :
        /\ now - age >= 0
        /\ sensor_fusion' =
              [sensor_fusion EXCEPT
                  !.imu_data = <<[timestamp |-> now - age]>>]
        /\ UNCHANGED <<event_queue, stats, g_created>>
        /\ FusionFrame

\* reset_fusion(pose)
ResetFusion ==
    /\ sensor_fusion.ekf.state # <<>>
    /\ sensor_fusion' = reset_fusion(sensor_fusion)
    /\ UNCHANGED <<event_queue, stats, g_created>>
    /\ FusionFrame

\* the Odometry after a long run: its variances have grown with the
\* distance travelled
WornOdometry ==
    {[current_pose |-> Pose2D(0, 0, 0), pose_timestamp |-> 0,
      total_distance |-> d, position_variance |-> 1000 + d,
      angle_variance |-> 1000 + int_div(d, 10), g_op |-> "update"] :
        d \in {0, 499000, 600000}}

\* the system with a SensorFusion over an Odometry that has run for a while
FusionStart ==
    /\ SMInit /\ BusInit /\ PlannerInit /\ NoDirectCalls
    /\ EncoderInit /\ FusionInit /\ HwInit
    /\ odometry \in WornOdometry

FusionNext ==
    \/ FusionUpdate
    \/ UpdateImuData
    \/ ResetFusion
    \/ Update
    \/ Tick

FusionSpec == FusionStart /\ [][FusionNext]_vars

(***************************************************************************)
(* Claims about the SensorFusion (FusionSpec)                              *)
(***************************************************************************)

\* the last update call found dt > 0
Ticked == sensor_fusion.g_tick.dt > 0

\* the step was applied to the filter on the last tick
Applied(step) ==
    \E i \in DOMAIN sensor_fusion.g_tick.steps :
        sensor_fusion.g_tick.steps[i] = step

\* the odometry was healthy on the last tick: confidence > 0.5 and a pose
\* no older than 1 s
OdometryHealthy ==
    /\ sensor_fusion.g_tick.confidence > 500000
    /\ sensor_fusion.g_tick.pose_age <= 1

\* on the last tick an IMU reading existed and was no older than the timeout
ImuFresh ==
    /\ sensor_fusion.g_tick.imu_age >= 0
    /\ sensor_fusion.g_tick.imu_age <= imu_data_timeout

\* what holds of the last tick when it found dt > 0
TickFusesHealthySources ==
    Ticked =>
        /\ sensor_fusion.g_tick.steps # <<>>
        /\ sensor_fusion.g_tick.steps[1] = "predict"
        /\ Applied("update_odometry") => OdometryHealthy
        /\ Applied("update_imu") => ImuFresh
        /\ sensor_fusion.g_tick.raised = "none" =>
              /\ OdometryHealthy => Applied("update_odometry")
              /\ ImuFresh => Applied("update_imu")

\* a step that is an update call leaves the estimate it found, with the
\* steps it applied
TickChangesFilterByItsSteps ==
    sensor_fusion'.g_ticks # sensor_fusion.g_ticks =>
        sensor_fusion'.ekf.state =
            sensor_fusion.ekf.state \o sensor_fusion'.g_tick.steps

C24_FailureContained ==
    (Ticked /\ sensor_fusion.g_tick.raised # "none") =>
        /\ ~sensor_fusion.g_tick.propagated
        /\ sensor_fusion.ekf.state = sensor_fusion.g_tick.state_before
        /\ sensor_fusion.g_tick.raised = "update_odometry" =>
              ~sensor_fusion.odometry_healthy
        /\ sensor_fusion.g_tick.raised = "update_imu" =>
              ~sensor_fusion.imu_healthy

-----------------------------------------------------------------------------
(***************************************************************************)
(* hardware/car_run_turn.py: CarRunTurnController.  A timed command sets   *)
(* the pins, sleeps and then calls stop(); other calls run while it        *)
(* sleeps.  Durations are in tenths of a second.                           *)
(***************************************************************************)

DEFAULT_DURATION == 5

\* the pins <<r1, r2, l1, l2>> each command sets
motor_pins(direction) ==
    CASE direction = "forward"  -> <<TRUE, FALSE, TRUE, FALSE>>
      [] direction = "backward" -> <<FALSE, TRUE, FALSE, TRUE>>
      [] direction = "right"    -> <<FALSE, FALSE, TRUE, FALSE>>
      [] direction = "left"     -> <<TRUE, FALSE, FALSE, FALSE>>
      [] OTHER                  -> <<FALSE, FALSE, FALSE, FALSE>>

\* stop(): nothing happens in the emergency-stop condition
stop(car, current_time) ==
    IF car.status.emergency_stop THEN car
    ELSE [car EXCEPT !.pins = motor_pins("stop"),
                     !.status.is_moving = FALSE,
                     !.status.current_direction = "stop",
                     !.status.last_command_time = current_time]

\* "duration = duration or self.duration" and "if duration > 0"
timed(duration) ==
    (IF duration = 0 THEN DEFAULT_DURATION ELSE duration) > 0

\* forward / backward / turn_right / turn_left without the test of the
\* emergency-stop flag
drive_unguarded(car, direction, duration, current_time) ==
    [car EXCEPT !.pins = motor_pins(direction),
                !.status.is_moving = TRUE,
                !.status.current_direction = direction,
                !.status.last_command_time = current_time,
                !.sleeping = IF timed(duration) THEN @ + 1 ELSE @]

\* forward / backward / turn_right / turn_left(duration) up to its
\* asyncio.sleep: nothing happens in the emergency-stop condition
drive(car, direction, duration, current_time) ==
    IF car.status.emergency_stop THEN car
    ELSE [car EXCEPT !.pins = motor_pins(direction),
                     !.status.is_moving = TRUE,
                     !.status.current_direction = direction,
                     !.status.last_command_time = current_time,
                     !.sleeping = IF timed(duration) THEN @ + 1 ELSE @]

\* emergency_stop()
car_emergency_stop(car, current_time) ==
    [car EXCEPT !.status.emergency_stop = TRUE,
                !.pins = motor_pins("stop"),
                !.status.is_moving = FALSE,
                !.status.current_direction = "stop",
                !.status.last_command_time = current_time]

\* reset_emergency_stop()
reset_emergency_stop(car) == [car EXCEPT !.status.emergency_stop = FALSE]

\* the durations the commands are called with: 0 stands for None too
Durations == {0, 2, -1}

\* everything but the CarRunTurnController
CarFrame ==
    UNCHANGED <<smvars, busvars, navvars, locvars, motor_controller,
                main_loop, sharedvars>>

\* await car.forward(duration), backward, turn_right or turn_left, up to
\* its sleep
Drive ==
    \E direction \in {"forward", "backward", "right", "left"} :
        \E duration \in Durations :
            /\ car_controller.sleeping < MaxSleeping
            /\ car_controller' =
                  [drive(car_controller, direction, duration, now) EXCEPT
                      !.g_op = direction]
            /\ CarFrame

\* a timed command wakes from its sleep and calls stop()
Wake ==
    /\ car_controller.sleeping > 0
    /\ car_controller' =
          [stop(car_controller, now) EXCEPT !.sleeping = @ - 1,
                                            !.g_op = "wake"]
    /\ CarFrame

\* await car.stop()
CarStop ==
    /\ car_controller' = [stop(car_controller, now) EXCEPT !.g_op = "stop"]
    /\ CarFrame

\* await car.emergency_stop()
CarEmergencyStop ==
    /\ car_controller' =
          [car_emergency_stop(car_controller, now) EXCEPT
              !.g_op = "emergency_stop"]
    /\ CarFrame

\* car.reset_emergency_stop()
CarResetEmergencyStop ==
    /\ car_controller' =
          [reset_emergency_stop(car_controller) EXCEPT
              !.g_op = "reset_emergency_stop"]
    /\ CarFrame

CarNext ==
    \/ Drive
    \/ Wake
    \/ CarStop
    \/ CarEmergencyStop
    \/ CarResetEmergencyStop
    \/ Elapse

CarSpec == Init /\ [][CarNext]_vars

(***************************************************************************)
(* Claims about the CarRunTurnController (CarSpec)                         *)
(***************************************************************************)

\* the status of the emergency-stop condition: flag set, not moving,
\* direction stop, every pin low
EmergencyStopped ==
    /\ car_controller.status.emergency_stop
    /\ ~car_controller.status.is_moving
    /\ car_controller.status.current_direction = "stop"
    /\ car_controller.pins = <<FALSE, FALSE, FALSE, FALSE>>

\* the emergency-stop condition holds right after emergency_stop(), the flag
\* is clear right after reset_emergency_stop(), and whenever the flag is set
\* the car is stopped
StoppedWhileFlagSet ==
    /\ car_controller.g_op = "emergency_stop" => EmergencyStopped
    /\ car_controller.g_op = "reset_emergency_stop" =>
          ~car_controller.status.emergency_stop
    /\ car_controller.status.emergency_stop => EmergencyStopped

\* a step that leaves the emergency-stop condition is a call of
\* reset_emergency_stop()
OnlyResetClears ==
    (EmergencyStopped /\ ~EmergencyStopped') =>
        car_controller'.g_op = "reset_emergency_stop"

\* C25: after emergency_stop() the status reports emergency_stop = true,
\* is_moving = false and direction stop, under every interleaving of the
\* movement commands, stop() and the waking of sleeping timed commands,
\* until reset_emergency_stop() is called; after that call emergency_stop
\* is false
C25_EmergencyStopHolds == []StoppedWhileFlagSet /\ [][OnlyResetClears]_vars

\* in the emergency-stop condition, a timed command that was asleep when
\* the emergency stop arrived has just woken and called stop()
C25_Witness ==
    /\ EmergencyStopped
    /\ car_controller.g_op = "wake"

-----------------------------------------------------------------------------
(***************************************************************************)
(* main_improved.py: the main control loop of ImprovedRobotSystem with the *)
(* state machine, the PathPlanner and the MotorController, and the         *)
(* handlers and API calls that run while a tick waits for the sensors.     *)
(***************************************************************************)

\* execute_command(command) called with the planner's NavigationCommand,
\* which has no left_speed: nothing happens in the emergency-stop
\* condition; otherwise evaluating command.left_speed inside the try block
\* raises AttributeError before a motor is touched, the except branch calls
\* emergency_stop_all(), and the finally block reads command.left_speed
\* again, so the AttributeError leaves execute_command
execute_navigation_command(mc) ==
    IF mc.emergency_stop THEN [self |-> mc, raised |-> FALSE]
    ELSE [self |-> emergency_stop_all(mc), raised |-> TRUE]

\* the speed of MotorController.move_forward
default_speed == 50

\* the system after ImprovedRobotSystem.initialize(): the state machine has
\* gone from Initializing to Idle.  The event bus is taken as constructed:
\* its dispatch task is not part of LoopNext, and the handlers it calls are
\* the actions HandleEmergencyEvent and HandleSensorDataEvent
LoopStart ==
    /\ current_state = "idle"
    /\ state_history = <<[from_state |-> "initializing", to_state |-> "idle",
                          success |-> TRUE]>>
    /\ state_validators =
          [s \in RobotState |->
              IF s = "navigating" THEN <<"validate_navigation_state">>
              ELSE <<>>]
    /\ emergency_stop_active = FALSE
    /\ g_last_call = [from_state |-> "initializing", to_state |-> "idle",
                      results |-> <<>>, ret |-> TRUE, origin |-> "none",
                      steps |-> <<>>, published |-> <<>>]
    /\ g_attempts = 0
    /\ BusInit /\ PlannerInit /\ NoDirectCalls /\ LocInit /\ HwInit

\* what a step of the loop or a handler leaves alone
LoopFrame ==
    UNCHANGED <<now, astar_call, dwa_call, locvars, car_controller,
                sharedvars>>

\* ImprovedRobotSystem.set_navigation_goal(x, y)
SetNavigationGoal ==
    \E goal \in Goals :
        LET done == set_goal(self, goal)
        IN  /\ is_transition_allowed(current_state, "navigating")
            /\ becomes(done.self)
            /\ g_nav' = nav_call("set_goal", navigation_state, done.states,
                                 done.ret, no_command, done.planned,
                                 done.stamped, <<>>, 0, FALSE, FALSE)
            /\ IF done.ret
               THEN \E results \in validator_results("navigating") :
                       transition("navigating", results,
                                  "set_navigation_goal", motor_controller)
               ELSE UNCHANGED <<smvars, busvars, motor_controller>>
            /\ main_loop' =
                  [main_loop EXCEPT
                      !.g_goal = [made |-> TRUE, ret |-> done.ret,
                                  accepted |-> done.ret /\ g_last_call'.ret]]
            /\ LoopFrame

\* handle_sensor_data_event with a battery voltage below 10
HandleSensorDataEvent ==
    \E results \in validator_results("charging") :
        transition_to("charging", results, "low_battery")

\* resume_from_emergency()
ResumeFromEmergency ==
    /\ current_state = "emergency_stop"
    /\ \E results \in validator_results("idle") :
          transition_to("idle", results, "resume_from_emergency")

\* motor_controller.move_forward(), called from outside the loop
MoveForward ==
    /\ motor_controller' =
          execute_command(motor_controller, default_speed, default_speed)
    /\ motor_controller' # motor_controller
    /\ UNCHANGED <<smvars, busvars, navvars, locvars, car_controller,
                   main_loop, sharedvars>>

\* a tick of start_main_loop that reads Navigating: _handle_navigating_state
\* up to its first await
TickNavigating ==
    /\ main_loop.is_running
    /\ main_loop.pc = "sleeping"
    /\ current_state = "navigating"
    /\ main_loop' = [main_loop EXCEPT !.pc = "sensing",
                                      !.tick_state = current_state]
    /\ UNCHANGED <<smvars, busvars, navvars, locvars, car_controller,
                   motor_controller, sharedvars>>

\* the rest of _handle_navigating_state once the sensors have answered:
\* obstacles, pose, get_next_move, the command handed to the MotorController
\* unless the emergency flag is set, the transition to Idle at the goal; an
\* exception leaves the handler and the loop asks for Error
Navigate ==
    /\ main_loop.pc = "sensing"
    /\ \E sensor_data \in SensorReadings, pose \in Poses,
          vision_obstacles \in {<<>>} \cup Sightings :
          LET seen   == IF vision_obstacles # <<>>
                        THEN update_obstacles(self, vision_obstacles).self
                        ELSE self
              posed  == update_pose(seen, pose[1], pose[2], pose[3])
              done   == get_next_move(posed, sensor_data)
              passed == done.ret # no_command /\ ~emergency_stop_active
              ran    == IF passed
                        THEN execute_navigation_command(motor_controller)
                        ELSE [self |-> motor_controller, raised |-> FALSE]
          IN  /\ Len(seen.dynamic_obstacles) <= MaxTracked
              /\ becomes(done.self)
              /\ g_nav' = nav_call("get_next_move", navigation_state,
                                   <<done.self.navigation_state>>, FALSE,
                                   done.ret, FALSE, <<>>, done.dwa_obstacles,
                                   0, emergency(sensor_data),
                                   goal_reached(posed))
              /\ main_loop' =
                    [main_loop EXCEPT
                        !.pc = "sleeping",
                        !.g_call =
                           IF passed
                           THEN [made |-> TRUE,
                                 tick_state |-> main_loop.tick_state,
                                 state |-> current_state,
                                 emergency_stop_active |->
                                     emergency_stop_active,
                                 command_type |-> done.ret.command_type,
                                 raised |-> ran.raised]
                           ELSE @]
              /\ IF ran.raised
                 THEN \E results \in validator_results("error") :
                         transition("error", results, "main_loop", ran.self)
                 ELSE IF done.self.navigation_state = "reached_goal"
                 THEN \E results \in validator_results("idle") :
                         transition("idle", results, "main_loop", ran.self)
                 ELSE /\ motor_controller' = ran.self
                      /\ UNCHANGED <<smvars, busvars>>
              /\ LoopFrame

\* a tick that reads EmergencyStop: _handle_emergency_state awaits
\* self.motor_controller.emergency_stop(), a bool; the TypeError reaches the
\* loop, which asks for Error
TickEmergency ==
    /\ main_loop.is_running
    /\ main_loop.pc = "sleeping"
    /\ current_state = "emergency_stop"
    /\ \E results \in validator_results("error") :
          transition_to("error", results, "main_loop")

\* a tick that reads Charging with a battery voltage above 12
TickCharging ==
    /\ main_loop.is_running
    /\ main_loop.pc = "sleeping"
    /\ current_state = "charging"
    /\ \E results \in validator_results("idle") :
          transition_to("idle", results, "main_loop")

\* a tick that reads Error: _handle_error_state asks for Idle
TickError ==
    /\ main_loop.is_running
    /\ main_loop.pc = "sleeping"
    /\ current_state = "error"
    /\ \E results \in validator_results("idle") :
          transition_to("idle", results, "main_loop")

\* shutdown() up to its first await after the flag: transition_to(
\* SHUTTING_DOWN), then is_running = False
ShutdownBegin ==
    /\ main_loop.shutdown = "none"
    /\ \E results \in validator_results("shutting_down") :
          transition("shutting_down", results, "shutdown", motor_controller)
    /\ main_loop' = [main_loop EXCEPT !.is_running = FALSE,
                                      !.shutdown = "closing"]
    /\ UNCHANGED <<navvars, locvars, car_controller, sharedvars>>

\* the rest of shutdown(): the components are stopped, among them the
\* motors with stop_all(), and the state machine is asked for Shutdown
ShutdownEnd ==
    /\ main_loop.shutdown = "closing"
    /\ \E results \in validator_results("shutdown") :
          transition("shutdown", results, "shutdown",
                     stop_all(motor_controller))
    /\ main_loop' = [main_loop EXCEPT !.shutdown = "done"]
    /\ UNCHANGED <<navvars, locvars, car_controller, sharedvars>>

\* the ticks that read Idle or Mapping change neither the state machine nor
\* the planner nor the motors and are left as stuttering steps
LoopNext ==
    \/ SetNavigationGoal
    \/ HandleEmergencyEvent
    \/ HandleSensorDataEvent
    \/ ResumeFromEmergency
    \/ MoveForward
    \/ TickNavigating
    \/ Navigate
    \/ TickEmergency
    \/ TickCharging
    \/ TickError
    \/ ShutdownBegin
    \/ ShutdownEnd

LoopSpec == LoopStart /\ [][LoopNext]_vars

(***************************************************************************)
(* Claims about the main loop (LoopSpec)                                   *)
(***************************************************************************)

\* the states in which no planner command may reach the motors
Halted ==
    {"emergency_stop", "charging", "idle", "error", "shutting_down",
     "shutdown"}

\* C26: a planner command is handed to the MotorController only on a tick
\* that started in Navigating, with the emergency flag clear at the moment
\* of the call, and never while the state machine is in EmergencyStop,
\* Charging, Idle, Error or a shutdown state
C26_StateMachineGatesActuation ==
    main_loop.g_call.made =>
        /\ main_loop.g_call.tick_state = "navigating"
        /\ ~main_loop.g_call.emergency_stop_active
        /\ main_loop.g_call.state \notin Halted

\* C27: after every successful transition into EmergencyStop the
\* MotorController is in its emergency-stopped condition: its emergency flag
\* is set and both motors are commanded to speed 0
C27_EnteringEmergencyStopsMotors ==
    (g_last_call.ret /\ g_last_call.to_state = "emergency_stop"
        /\ g_last_call.origin # "none") =>
        /\ motor_controller.emergency_stop
        /\ motor_controller.left_speed = 0
        /\ motor_controller.right_speed = 0

-----------------------------------------------------------------------------
(***************************************************************************)
(* Further claims about the PathPlanner (PlannerSpec)                      *)
(***************************************************************************)

\* the step is an update_obstacles call made while the planner follows a path
ObstaclesWhileFollowing ==
    /\ PlannerCall
    /\ g_nav'.op = "update_obstacles"
    /\ navigation_state = "following_path"

\* the obstacles the call has added: the last ones of the list it leaves
added_obstacles ==
    SubSeq(dynamic_obstacles',
           Len(dynamic_obstacles') - g_nav'.new_obstacles + 1,
           Len(dynamic_obstacles'))

\* an obstacle the call has added contains a point of the path from
\* path_index on, as the path stood before the call
NewObstacleOnRemainingPath ==
    \E i \in (path_index + 1)..Len(current_path) :
        \E j \in DOMAIN added_obstacles :
            contains_point(added_obstacles[j], current_path[i])

\* C31: an update_obstacles call made in FollowingPath that adds an obstacle
\* containing a point of the remaining path plans again within the call and
\* leaves the planner in FollowingPath with path_index 0 or in Failed; a call
\* that adds no obstacle on the remaining path leaves the path and path_index
\* as they were.
C31_ReplanOnBlockedPath ==
    [][ObstaclesWhileFollowing =>
          IF NewObstacleOnRemainingPath
          THEN /\ g_nav'.planned
               /\ \/ navigation_state' = "following_path" /\ path_index' = 0
                  \/ navigation_state' = "failed"
          ELSE /\ current_path' = current_path
               /\ path_index' = path_index
      ]_vars

\* an update_obstacles call has added an obstacle on the remaining path of a
\* planner that was following it, and the planner has planned again
C31_Witness ==
    /\ LastCall("update_obstacles")
    /\ g_nav.state_before = "following_path"
    /\ g_nav.new_obstacles > 0
    /\ g_nav.planned
    /\ navigation_state \in {"following_path", "failed"}

\* world coordinates of the cells the loaded occupancy map marks occupied
\* (value >= 50): one cell, where the goal two units ahead lies
map_occupied_points == {Point(2, 0)}

\* the cells of the planner's grid those map cells convert to, as
\* _integrate_prebuilt_map_obstacles converts them, within the grid
prebuilt_cells ==
    {c \in {<<int_div(p.x + config.planning_range, config.grid_size),
              int_div(p.y + config.planning_range, config.grid_size)>> :
               p \in map_occupied_points} :
        is_valid_grid(empty_grid, c[1], c[2])}

\* the cells within the radius of a tracked dynamic obstacle
dynamic_cells(obstacles) == stamp(empty_grid, obstacles, 1).data

\* C33: after a planning cycle the grid is occupied exactly at the occupied
\* cells of the loaded pre-built map and at the cells within the radius of a
\* tracked dynamic obstacle, and a path planned in that cycle crosses no cell
\* the pre-built map marks occupied.
C33_GridRebuiltFromMapAndObstacles ==
    [][(PlannerCall /\ g_nav'.planned) =>
          /\ grid_data' =
                (IF current_occupancy_map' THEN prebuilt_cells ELSE {})
                    \cup dynamic_cells(dynamic_obstacles')
          /\ (current_occupancy_map' /\ navigation_state' = "following_path")
                => \A i \in DOMAIN current_path' :
                      world_to_grid(empty_grid, current_path'[i])
                          \notin prebuilt_cells
      ]_vars

\* the navigation states the planner is ever in
EnteredStates ==
    {"idle", "planning", "following_path", "reached_goal", "failed"}

\* C40: whatever calls are made on the planner, its navigation state, and
\* every state a call assigns on the way, is Idle, Planning, FollowingPath,
\* ReachedGoal or Failed, and no control tick returns an AVOID_OBSTACLE
\* command.
C40_AvoidingObstacleNeverEntered ==
    /\ navigation_state \in EnteredStates
    /\ \A i \in DOMAIN g_nav.states : g_nav.states[i] \in EnteredStates
    /\ g_nav.command.command_type # "AVOID_OBSTACLE"

\* a control tick in FollowingPath with obstacles tracked: the velocity came
\* from compute_velocity as a FOLLOW_PATH command and the planner still
\* follows its path
C40_Witness ==
    /\ LastCall("get_next_move")
    /\ g_nav.state_before = "following_path"
    /\ g_nav.dwa_obstacles # <<>>
    /\ g_nav.command.command_type = "FOLLOW_PATH"
    /\ navigation_state = "following_path"

-----------------------------------------------------------------------------
(***************************************************************************)
(* Further claims about the event bus (BusSpec)                            *)
(***************************************************************************)

\* C39: events_processed never exceeds events_published, and when the queue
\* is empty and no delivery is in flight the two counters are equal.
C39_CountersConsistent ==
    /\ stats.events_processed <= stats.events_published
    /\ (event_queue = <<>> /\ ~InFlight) =>
           stats.events_processed = stats.events_published

\* the main loop left to itself: goals are requested, the motors are moved
\* by hand and the loop ticks, but no event and no shutdown arrives
RecoveryNext ==
    \/ SetNavigationGoal
    \/ MoveForward
    \/ TickNavigating
    \/ Navigate
    \/ TickError

\* the same under fair scheduling of the loop: a tick of the error handler
\* that can run does run (the state machine enters Error only at the end of
\* a tick, so the loop is then asleep and its next tick reads Error)
RecoverySpec == LoopStart /\ [][RecoveryNext]_vars /\ WF_vars(TickError)

\* both motors are commanded to speed 0
MotorsStopped ==
    motor_controller.left_speed = 0 /\ motor_controller.right_speed = 0

\* C35: once in EmergencyStop, every loop tick leaves the state machine in
\* EmergencyStop with the motors stopped, and the state machine leaves
\* EmergencyStop only by resume_from_emergency or shutdown.
C35_EmergencyStopHeld ==
    /\ [][TickEmergency =>
             current_state' = "emergency_stop" /\ MotorsStopped']_vars
    /\ [][(current_state = "emergency_stop"
              /\ current_state' # "emergency_stop") =>
             g_last_call'.origin \in {"resume_from_emergency", "shutdown"}
         ]_vars

\* C36: when the state machine is in Error while the main loop runs (and
\* transition_to calls are left in the behaviour), the state machine is
\* eventually in Idle.
C36_ErrorRecovers ==
    (current_state = "error" /\ main_loop.is_running
        /\ g_attempts < MaxCalls) ~> (current_state = "idle")

\* C37: when shutdown() has completed the state machine is in Shutdown.
C37_ShutdownReachesTerminal ==
    main_loop.shutdown = "done" => current_state = "shutdown"

----------------------------------------------------------------------------
(* RobotStateMachine.transition_to when several calls overlap. The calls   *)
(* run as coroutines of one event loop: a call gives the loop away only at  *)
(* an await that suspends. Of the validators and callbacks                  *)
(* _setup_state_machine_callbacks registers, validate_navigation_state      *)
(* suspends in sensor_manager.get_all_data() and on_charging_enter in       *)
(* stop_all(), the latter after the history and the state were written, so  *)
(* a call is split at the validator only.                                   *)

\* validate_navigation_state reaches its await: some validator of new_state
\* is that one and the emergency flag is not set
suspends_at_validator(new_state) ==
    /\ ~emergency_stop_active
    /\ \E i \in 1..Len(state_validators[new_state]) :
          state_validators[new_state][i] = "validate_navigation_state"

\* the validator that waits for the sensors answers with the battery
\* reading it gets (or raises with the sensor manager)
resumed_results(new_state) ==
    [1..Len(state_validators[new_state]) -> ValidatorResult]

\* transition_to(new_state) up to its first suspension: the check of
\* _is_transition_allowed against self._current_state, then
\* _validate_state_conditions; a call that does not suspend runs to its end
CallTransitionTo ==
    \E new_state \in RobotState :
        IF /\ is_transition_allowed(current_state, new_state)
           /\ suspends_at_validator(new_state)
        THEN /\ g_attempts < MaxCalls
             /\ Cardinality(transition_calls) < MaxOverlap
             /\ g_attempts' = g_attempts + 1
             /\ transition_calls' =
                   transition_calls \cup
                       {[id |-> g_attempts + 1, new_state |-> new_state,
                         checked_from |-> current_state]}
             /\ UNCHANGED <<current_state, state_history, state_validators,
                            emergency_stop_active, g_last_call, busvars,
                            navvars, locvars, car_controller,
                            motor_controller, main_loop, pose_objects>>
        ELSE \E results \in validator_results(new_state) :
                transition_to(new_state, results, "caller")

\* the rest of a suspended call once its validator has answered:
\* old_state = self._current_state is read now, then the try block runs
ResumeTransitionTo ==
    \E call \in transition_calls :
        \E results \in resumed_results(call.new_state) :
            LET old_state == current_state
                ret       == validate_state_conditions(results)
                found     == [current_state |-> current_state,
                              state_history |-> state_history,
                              emergency_stop_active |-> emergency_stop_active,
                              motor_controller |-> motor_controller,
                              published |-> <<>>, steps |-> <<>>]
                done      == IF ret
                             THEN try_block(found, old_state, call.new_state)
                             ELSE found
            IN  /\ transition_calls' = transition_calls \ {call}
                /\ g_last_call' = [from_state |-> old_state,
                                   to_state |-> call.new_state,
                                   results |-> results, ret |-> ret,
                                   origin |-> "resumed",
                                   steps |-> done.steps,
                                   published |-> done.published]
                /\ state_history' = done.state_history
                /\ current_state' = done.current_state
                /\ emergency_stop_active' = done.emergency_stop_active
                /\ motor_controller' = done.motor_controller
                /\ IF done.published # <<>>
                   THEN /\ publish("system_state", 0)
                        /\ UNCHANGED <<subscribers, weak_subscribers,
                                       collected, event_history, is_running,
                                       processor_task, g_handled,
                                       g_last_dispatched, g_unsubscribed>>
                   ELSE UNCHANGED busvars
                /\ UNCHANGED <<state_validators, g_attempts, navvars,
                               locvars, car_controller, main_loop,
                               pose_objects>>

OverlapNext ==
    \/ CallTransitionTo
    \/ ResumeTransitionTo
    \/ HandleEmergencyEvent

OverlapSpec == LoopStart /\ [][OverlapNext]_vars

(***************************************************************************)
(* Claims about overlapping transition_to calls (OverlapSpec)              *)
(***************************************************************************)

\* the record a step appended to the history
appended_transition == state_history'[Len(state_history')]

\* C34: when transition_to calls overlap, every transition a step records in
\* the history as successful has its (from_state, to_state) in the adjacency
\* table and its from_state equal to the state the machine was in right
\* before the change, and no step moves the machine out of Shutdown.
C34_EdgesUnderInterleaving ==
    [][/\ Len(state_history') > Len(state_history)
          => (appended_transition.success
                => /\ is_transition_allowed(appended_transition.from_state,
                                            appended_transition.to_state)
                   /\ appended_transition.from_state = current_state)
       /\ current_state = "shutdown" => current_state' = "shutdown"]_vars

----------------------------------------------------------------------------
(* The pose objects of localization/ by identity: which object the          *)
(* Odometry and the SensorFusion refer to, which objects their accessors    *)
(* return, and what a write through a returned object reaches. A pose is    *)
(* reduced to its x coordinate.                                             *)

\* a new object is put on the heap; its identity is its index
allocate(po, object) == [po EXCEPT !.heap = Append(@, object)]

\* the identity the next allocated object gets
new_id(po) == Len(po.heap) + 1

\* the Pose2D an object gives access to: the object itself, or the pose
\* attribute of a FusedPose
pose_of(po, id) ==
    IF po.heap[id].kind = "FusedPose" THEN po.heap[id].pose ELSE id

\* the x a reader of the object sees
x_of(po, id) == po.heap[pose_of(po, id)].x

\* obj.x = x, or obj.pose.x = x on a FusedPose
write_x(po, id, x) == [po EXCEPT !.heap[pose_of(po, id)].x = x]

\* Pose2D.copy(): a new Pose2D with the fields of the copied one
copy(po, id) == allocate(po, pose_object(x_of(po, id)))

\* the object goes to a consumer
hand_out(po, id, accessor) ==
    [po EXCEPT !.handed = @ \cup {[object |-> id, accessor |-> accessor]},
               !.g_op = accessor]

\* the x coordinates a pose takes in this model
PoseValues == 0..MaxPoseValue

\* what the operations on the pose objects leave alone
PoseFrame ==
    UNCHANGED <<smvars, busvars, navvars, locvars, car_controller,
                motor_controller, main_loop, transition_calls>>

\* Odometry._update_pose_with_kinematics: self._current_pose is moved in
\* place
UpdatePoseWithKinematics ==
    /\ x_of(pose_objects, pose_objects.current_pose) < MaxPoseValue
    /\ pose_objects' =
          [write_x(pose_objects, pose_objects.current_pose,
                   x_of(pose_objects, pose_objects.current_pose) + 1)
              EXCEPT !.g_op = "update_pose"]
    /\ PoseFrame

\* Odometry.set_pose(x, y, theta): the fields of self._current_pose are
\* assigned
SetPoseFields ==
    \E x \in PoseValues :
        /\ x # x_of(pose_objects, pose_objects.current_pose)
        /\ pose_objects' =
              [write_x(pose_objects, pose_objects.current_pose, x)
                  EXCEPT !.g_op = "set_pose"]
        /\ PoseFrame

\* Odometry.reset_pose(pose): self._current_pose becomes a new Pose2D() or
\* pose.copy()
ResetPoseObject ==
    \E x \in PoseValues :
        /\ Len(pose_objects.heap) < MaxObjects
        /\ pose_objects' =
              [allocate(pose_objects, pose_object(x))
                  EXCEPT !.current_pose = new_id(pose_objects),
                         !.g_op = "reset_pose"]
        /\ PoseFrame

\* Odometry.get_pose(): return self._current_pose.copy()
GetPose ==
    /\ Len(pose_objects.heap) < MaxObjects
    /\ pose_objects' =
          hand_out(copy(pose_objects, pose_objects.current_pose),
                   new_id(pose_objects), "get_pose")
    /\ PoseFrame

\* Odometry.get_odometry_data(): OdometryData(pose=self._current_pose.copy(),
\* ...); the velocities it carries are floats
GetOdometryData ==
    /\ Len(pose_objects.heap) < MaxObjects
    /\ pose_objects' =
          hand_out(copy(pose_objects, pose_objects.current_pose),
                   new_id(pose_objects), "get_odometry_data")
    /\ PoseFrame

\* SensorFusion._generate_fused_pose, run by every update tick:
\* self._fused_pose = FusedPose(pose=self.ekf.get_pose(), ...), where
\* ekf.get_pose() builds a new Pose2D from the filter state
GenerateFusedPose ==
    \E x \in PoseValues :
        /\ Len(pose_objects.heap) + 1 < MaxObjects
        /\ pose_objects' =
              [allocate(allocate(pose_objects, pose_object(x)),
                        fused_pose_object(new_id(pose_objects)))
                  EXCEPT !.fused_pose = new_id(pose_objects) + 1,
                         !.g_op = "generate_fused_pose"]
        /\ PoseFrame

\* SensorFusion.get_fused_pose(): return self._fused_pose
GetFusedPose ==
    /\ [object |-> pose_objects.fused_pose, accessor |-> "get_fused_pose"]
          \notin pose_objects.handed
    /\ pose_objects' =
          hand_out(pose_objects, pose_objects.fused_pose, "get_fused_pose")
    /\ PoseFrame

\* a consumer assigns to the x of an object it was handed
ConsumerWrites ==
    \E h \in pose_objects.handed :
        \E x \in PoseValues :
            /\ x # x_of(pose_objects, h.object)
            /\ pose_objects' =
                  [write_x(pose_objects, h.object, x)
                      EXCEPT !.g_op = "consumer_write"]
            /\ PoseFrame

\* the steps of the two producers that change their estimate
ProducerUpdates ==
    \/ UpdatePoseWithKinematics
    \/ SetPoseFields
    \/ ResetPoseObject
    \/ GenerateFusedPose

SnapshotNext ==
    \/ UpdatePoseWithKinematics
    \/ SetPoseFields
    \/ ResetPoseObject
    \/ GetPose
    \/ GetOdometryData
    \/ GenerateFusedPose
    \/ GetFusedPose
    \/ ConsumerWrites

SnapshotSpec == Init /\ [][SnapshotNext]_vars

(***************************************************************************)
(* Claims about the objects the estimators hand out (SnapshotSpec)         *)
(***************************************************************************)

\* the pose the Odometry holds and the pose the SensorFusion holds
own_poses(po) == <<x_of(po, po.current_pose), x_of(po, po.fused_pose)>>

\* C32: the objects get_pose, get_odometry_data and get_fused_pose return
\* are snapshots: a consumer's write to a returned object never changes the
\* pose an estimator holds, and an update of a producer never changes an
\* object handed out before.
C32_EstimatesAreCopiedOut ==
    [][/\ ConsumerWrites => own_poses(pose_objects') = own_poses(pose_objects)
       /\ ProducerUpdates
             => \A h \in pose_objects.handed :
                   x_of(pose_objects', h.object) = x_of(pose_objects, h.object)
      ]_vars

====
